---- MODULE Spec2Model ----
(***************************************************************************)
(* State-machine model of rusty_db_cli: the scrollable table component,    *)
(* the event bus and application loop, and the connectors' get_data.       *)
(***************************************************************************)
EXTENDS Integers, Sequences, FiniteSets, TLC

(***************************************************************************)
(* Program constants                                                       *)
(***************************************************************************)
LIMIT == 100

MAXIMUM_DOCUMENTS == 100

\* the widget keeps its offsets as usize; the largest integer of the checker
\* stands for usize::MAX, so that (-1 as usize) is far outside every page
USIZE_MAX == 2147483647

(***************************************************************************)
(* Bounds of the model                                                     *)
(***************************************************************************)
\* largest number of page advances (pagination.start <= MaxPages * (LIMIT-1))
MaxPages == 2

\* widest page (number of columns of the header)
MaxCols == 2

\* largest number of keys the user presses in one run of the application loop
MaxKeys == 3

\* largest index k of a pair of consecutive windows k*99, (k+1)*99
MaxK == 2

\* largest number of modifiers chained to a primary command
MaxSubs == 2

\* longest source text given to the lexer, in characters
MaxSource == 3

\* longest token sequence given to the parser
MaxTokens == 4

\* the number of task handles given to EventManager::trigger
MaxHandles == 4

\* largest number of characters of the short number texts
MaxDigits == 3

\* largest number of items of a flat array, deepest nesting of a value
MaxItems == 2

MaxNesting == 2

\* largest number of tokens after the `(` of a call
MaxCallTokens == 5

\* largest number of expressions of a query
MaxSegments == 4

\* largest number of expressions that follow the primary command
MaxTail == 2

\* largest number of parameters of a command
MaxParams == 3

\* largest number of resources in the registry
MaxResources == 4

\* largest number of lines of the history file
MaxHistory == 2

\* largest number of keys typed into the command line with a history
MaxTyped == 5

\* the number of refresh keys pressed while queries overlap
MaxRefresh == 2

\* the number of keys pressed while the mode and the start-up are followed
MaxPresses == 3

(***************************************************************************)
(* Small input sets                                                        *)
(***************************************************************************)
Queries == {"db.a.find()", "db.b.find()"}

RowCounts == {0, 1, LIMIT}

NoInfo == [host |-> "none"]

SomeInfo == [host |-> "localhost", database |-> "admin"]

Min(a, b) == IF a < b THEN a ELSE b

Max(a, b) == IF a > b THEN a ELSE b

(***************************************************************************)
(* Events (managers/event_manager.rs)                                      *)
(***************************************************************************)
OnInput(mode, key) == [type |-> "OnInput", mode |-> mode, key |-> key]

OnMessage(severity, value) == [type |-> "OnMessage", severity |-> severity, value |-> value]

OnQuery(query, pagination) == [type |-> "OnQuery", query |-> query, pagination |-> pagination]

DatabaseData(data, took) == [type |-> "DatabaseData", data |-> data, trigger_query_took_message |-> took]

OnConnection(kind, arg) == [type |-> "OnConnection", kind |-> kind, arg |-> arg]

OnAsyncEvent(task) == [type |-> "OnAsyncEvent", task |-> task]

OnResourceEvent(kind, res) == [type |-> "OnResourceEvent", kind |-> kind, res |-> res]

OnQuit == [type |-> "OnQuit"]

\* an error re-posted with Info severity
log_error_as_info(err) == OnMessage("Info", <<err>>)

\* log_error!: an error is re-posted as an Error-severity OnMessage
log_error(err) == OnMessage("Error", <<err>>)

(***************************************************************************)
(* A page of rows as the table holds it: the query and window it answers,  *)
(* the number of rows and the number of distinct keys (header cells).      *)
(***************************************************************************)
Page(query, start, rows, cols) == [query |-> query, start |-> start, rows |-> rows, cols |-> cols]

EmptyData == Page("", 0, 0, 0)

\* `x as usize` of an i32
AsUsize(i) == IF i >= 0 THEN i ELSE USIZE_MAX + (i + 1)

(***************************************************************************)
(* ScrollableTableState (widgets/scrollable_table.rs)                      *)
(***************************************************************************)
ScrollableTableState_default == [horizontal_offset |-> 0, vertical_offset |-> 0, vertical_select |-> 1]

ScrollableTableState_reset(s) == [horizontal_offset |-> 0, vertical_offset |-> 0, vertical_select |-> 1]

\* a reset that clears the limit as well
PaginationInfo_reset_all(p) == [start |-> 0, limit |-> 0]

PaginationInfo_reset(p) == [start |-> 0, limit |-> LIMIT]

(***************************************************************************)
(* ScrollableTableComponent (ui/components/scrollable_table.rs)            *)
(***************************************************************************)
ScrollableTableComponent_new(query) ==
    [ is_fetching |-> FALSE,
      query |-> query,
      data |-> EmptyData,
      state |-> ScrollableTableState_default,
      horizontal_offset |-> 0,
      vertical_offset |-> 0,
      horizontal_offset_max |-> 0,
      vertical_offset_max |-> 0,
      pagination |-> [start |-> 0, limit |-> LIMIT],
      connector_info |-> NoInfo ]

reset_state(t) ==
    [t EXCEPT !.state = ScrollableTableState_reset(@),
              !.horizontal_offset = 0,
              !.vertical_offset = 0]

handle_next_horizontal_movement(t, dir) ==
    LET h == IF dir = "Right"
             THEN Min(t.horizontal_offset + 1, t.horizontal_offset_max)
             ELSE Max(t.horizontal_offset - 1, 0)
    IN [t EXCEPT !.horizontal_offset = h,
                 !.state.horizontal_offset = AsUsize(h)]

\* the first half of handle_next_vertical_movement: move the row cursor and
\* derive the widget's scroll offset and selected line from it
move_vertical(t, dir) ==
    LET vo == IF dir = "Down"
              THEN IF t.vertical_offset = 0
                   THEN Min(t.vertical_offset + 2, t.vertical_offset_max)
                   ELSE Min(t.vertical_offset + 1, t.vertical_offset_max)
              ELSE Max(t.vertical_offset - 1, 1)
    IN IF vo > 10
       THEN [t EXCEPT !.vertical_offset = vo,
                      !.state.vertical_offset = vo - 10]
       ELSE [t EXCEPT !.vertical_offset = vo,
                      !.state.vertical_offset = 0,
                      !.state.vertical_select = vo]

\* page_advance advancing by a whole page, without the one-row overlap
page_advance_no_overlap(m) ==
    LET a == [m EXCEPT !.vertical_offset = 1,
                       !.pagination.start = @ + LIMIT,
                       !.state = [ScrollableTableState_reset(@) EXCEPT
                                     !.horizontal_offset = AsUsize(m.horizontal_offset)]]
    IN [t |-> a, out |-> <<OnQuery(a.query, a.pagination)>>]

\* the page advance of handle_next_vertical_movement (Down reaching LIMIT)
page_advance(m) ==
    LET a == [m EXCEPT !.vertical_offset = 1,
                       !.pagination.start = @ + (LIMIT - 1),
                       !.state = [ScrollableTableState_reset(@) EXCEPT
                                     !.horizontal_offset = AsUsize(m.horizontal_offset)]]
    IN [t |-> a, out |-> <<OnQuery(a.query, a.pagination)>>]

\* the page rewind of handle_next_vertical_movement (Up at the first line)
page_rewind(m) ==
    LET b == [m EXCEPT !.vertical_offset = LIMIT - 1,
                       !.state.vertical_offset = (LIMIT - 1) - 10,
                       !.state.vertical_select = 10,
                       !.pagination.start = @ - (LIMIT - 1)]
    IN [t |-> b, out |-> <<OnQuery(b.query, b.pagination)>>]

handle_next_vertical_movement(t, dir) ==
    LET m == move_vertical(t, dir)
        offset == m.state.vertical_offset + m.state.vertical_select
        adv == IF offset = LIMIT /\ dir = "Down"
               THEN page_advance(m)
               ELSE [t |-> m, out |-> <<>>]
        rew == IF /\ offset = 1
                  /\ dir = "Up"
                  /\ adv.t.pagination.start > 0
                  /\ adv.t.pagination.start % (LIMIT - 1) = 0
               THEN page_rewind(adv.t)
               ELSE [t |-> adv.t, out |-> <<>>]
    IN [t |-> rew.t, out |-> adv.out \o rew.out]

\* a set_data that keeps the page it has once one is loaded
set_data_keep_first(t, result) ==
    LET d == IF t.data = EmptyData THEN result.data ELSE t.data
        header_len == IF d.rows = 0 THEN 0 ELSE d.cols
    IN [t |-> [t EXCEPT !.data = d,
                        !.horizontal_offset_max = header_len - 1,
                        !.vertical_offset_max = d.rows],
        out |-> IF result.trigger_query_took_message
                THEN <<OnAsyncEvent("took")>>
                ELSE <<>>]

\* set_data: the page is replaced in place; the cursor is left where it was
set_data(t, result) ==
    LET d == result.data
        header_len == IF d.rows = 0 THEN 0 ELSE d.cols
    IN [t |-> [t EXCEPT !.data = d,
                        !.horizontal_offset_max = header_len - 1,
                        !.vertical_offset_max = d.rows],
        out |-> IF result.trigger_query_took_message
                THEN <<OnAsyncEvent("took")>>
                ELSE <<>>]

Ok(t, out) == [t |-> t, out |-> out, res |-> "Ok", err |-> ""]

Err(t, out, e) == [t |-> t, out |-> out, res |-> "Err", err |-> e]

Panic(t) == [t |-> t, out |-> <<>>, res |-> "Panic", err |-> "panic"]

\* an `i` that opens the editor whether or not there is a connection
table_on_edit_unguarded(t) ==
    {Panic(t)} \cup
    UNION { LET e == [t EXCEPT !.query = q] IN
                 IF q = t.query
                 THEN {Ok(e, <<>>), Err(e, <<>>, "clear failed")}
                 ELSE LET r == [reset_state(e) EXCEPT !.pagination = PaginationInfo_reset(@)]
                          f == [r EXCEPT !.is_fetching = TRUE]
                      IN {Ok(f, <<OnQuery(f.query, f.pagination)>>), Err(r, <<>>, "clear failed")}
               : q \in Queries }

\* `i` in View mode: edit the query file, then query from the first page.
\* The editor leaves any query text in the file, or edit_file fails (the file
\* cannot be opened or read, the editor cannot be started) and its unwrap
\* panics; clearing the terminal can fail.
table_on_edit(t) ==
    IF t.connector_info = NoInfo
    THEN {Ok(t, <<log_error("You have to be connected to the database to be able to query!")>>)}
    ELSE {Panic(t)} \cup
         UNION { LET e == [t EXCEPT !.query = q] IN
                 IF q = t.query
                 THEN {Ok(e, <<>>), Err(e, <<>>, "clear failed")}
                 ELSE LET r == [reset_state(e) EXCEPT !.pagination = PaginationInfo_reset(@)]
                          f == [r EXCEPT !.is_fetching = TRUE]
                      IN {Ok(f, <<OnQuery(f.query, f.pagination)>>), Err(r, <<>>, "clear failed")}
               : q \in Queries }

\* `r` in View mode: query again from the first page
table_on_refresh(t) ==
    LET r == [reset_state(t) EXCEPT !.pagination = PaginationInfo_reset(@)]
        f == [r EXCEPT !.is_fetching = TRUE]
    IN {Ok(f, <<OnQuery(f.query, f.pagination)>>), Err(r, <<>>, "clear failed")}

\* Enter in View mode: show the selected row in the editor
table_on_enter(t) ==
    IF t.data.rows > 0
    THEN LET idx == t.state.vertical_select - 1 + t.state.vertical_offset
         IN IF idx >= 0 /\ idx < t.data.rows
            THEN {Ok(t, <<>>), Err(t, <<>>, "editor failed")}
            ELSE {Panic(t)}
    ELSE {Ok(t, <<>>)}

\* ScrollableTableComponent::on_event: the set of possible outcomes
ScrollableTableComponent_on_event(t, event) ==
    CASE event.type = "OnConnection" ->
            IF event.kind = "SwitchConnection"
            THEN {Ok([t EXCEPT !.connector_info = event.arg], <<>>)}
            ELSE {Ok(t, <<>>)}
      [] event.type = "OnInput" ->
            IF event.mode = "View"
            THEN CASE event.key = "i" -> table_on_edit(t)
                   [] event.key = "r" -> table_on_refresh(t)
                   [] event.key = "Left" -> {Ok(handle_next_horizontal_movement(t, "Left"), <<>>)}
                   [] event.key = "Right" -> {Ok(handle_next_horizontal_movement(t, "Right"), <<>>)}
                   [] event.key = "Down" ->
                        LET r == handle_next_vertical_movement(t, "Down") IN {Ok(r.t, r.out)}
                   [] event.key = "Up" ->
                        LET r == handle_next_vertical_movement(t, "Up") IN {Ok(r.t, r.out)}
                   [] event.key = "Enter" -> table_on_enter(t)
                   [] OTHER -> {Ok(t, <<>>)}
            ELSE {Ok(t, <<>>)}
      [] event.type = "DatabaseData" ->
            LET r == set_data(t, event)
            IN {Ok([r.t EXCEPT !.is_fetching = FALSE], r.out)}
      [] OTHER -> {Ok(t, <<>>)}

\* ScrollableTableComponent::draw: what the table area shows
ScrollableTableComponent_draw(t) ==
    IF t.is_fetching
    THEN [widget |-> "Throbber", page |-> EmptyData]
    ELSE [widget |-> "ScrollableTable", page |-> t.data]

(***************************************************************************)
(* StatusLineComponent (ui/components/status_line.rs)                      *)
(***************************************************************************)
StatusLineData_default == [host |-> "unknown", database_name |-> "unknown"]

StatusLineComponent_on_event(c, event) ==
    IF event.type = "OnConnection" /\ event.kind = "SwitchDatabase"
    THEN {Ok([c EXCEPT !.database_name = event.arg], <<>>)}
    ELSE IF event.type = "OnConnection" /\ event.kind = "SwitchConnection"
         THEN {Ok([c EXCEPT !.host = event.arg.host,
                            !.database_name = event.arg.database], <<>>)}
         ELSE {Ok(c, <<>>)}

(***************************************************************************)
(* CommandComponent (ui/components/command.rs).  Text is a sequence: a     *)
(* typed character is one element, the text of a message is one element.  *)
(***************************************************************************)
Chars == {":", "q", "r", "i", "x", " ", "u", "s", "e", "c", "o", "n", "t", "U", "!", "(", ")"}

\* what the shell prints for a command, trimmed
ShellOutputs == {<<>>, <<"x">>}

Message_default == [severity |-> "Normal", value |-> <<>>]

\* value.split(' '): the parts between the spaces (at least one part)
RECURSIVE split_space(_)
split_space(v) ==
    IF \A i \in 1..Len(v) : v[i] # " "
    THEN <<v>>
    ELSE LET k == CHOOSE i \in 1..Len(v) : v[i] = " " /\ \A j \in 1..(i - 1) : v[j] # " "
         IN <<SubSeq(v, 1, k - 1)>> \o split_space(SubSeq(v, k + 1, Len(v)))

\* parts.join(" ")
RECURSIVE join_space(_)
join_space(parts) ==
    IF parts = <<>> THEN <<>>
    ELSE IF Len(parts) = 1 THEN parts[1]
    ELSE parts[1] \o <<" ">> \o join_space(Tail(parts))

\* str::to_lowercase
to_lowercase(word) == [i \in 1..Len(word) |-> IF word[i] = "U" THEN "u" ELSE word[i]]

\* CommandKind::try_from
CommandKind_try_from(word) ==
    CASE to_lowercase(word) = <<"u", "s", "e">> -> "Use"
      [] to_lowercase(word) = <<"c", "o", "n", "n", "e", "c", "t">> -> "Connect"
      [] to_lowercase(word) = <<"q", "u", "i", "t">> \/ to_lowercase(word) = <<"q">> -> "Quit"
      [] OTHER -> "Invalid"

\* the regex !\((.*)\) on a text: the first "!(" and the last ")" after it
shell_captures(value) ==
    LET opens == {i \in 1..(Len(value) - 1) :
                    /\ value[i] = "!"
                    /\ value[i + 1] = "("
                    /\ \E j \in (i + 2)..Len(value) : value[j] = ")"}
    IN IF opens = {}
       THEN [some |-> FALSE, cmd |-> <<>>]
       ELSE LET i == CHOOSE a \in opens : \A b \in opens : a <= b
                j == CHOOSE a \in (i + 2)..Len(value) :
                        /\ value[a] = ")"
                        /\ \A b \in (a + 1)..Len(value) : value[b] # ")"
            IN [some |-> TRUE, cmd |-> SubSeq(value, i + 2, j - 1)]

\* Command::try_parse_shell_command: None without a match, and when zsh
\* cannot be run or its output is not UTF-8; else the trimmed output
try_parse_shell_command(value) ==
    IF shell_captures(value).some
    THEN {[some |-> FALSE, value |-> <<>>]} \cup {[some |-> TRUE, value |-> out] : out \in ShellOutputs}
    ELSE {[some |-> FALSE, value |-> <<>>]}

\* a parse that takes the empty text for an argument
Command_parse_any_args(parts) ==
    IF parts = <<>>
    THEN {[ok |-> FALSE, err |-> "Failed to parse command!"]}
    ELSE LET kind == CommandKind_try_from(parts[1])
             args == join_space(Tail(parts))
         IN CASE kind = "Invalid" -> {[ok |-> FALSE, err |-> "Value is not a valid CommandType"]}
              [] kind = "Quit" -> {[ok |-> TRUE, kind |-> kind, args |-> <<>>]}
              [] OTHER -> {[ok |-> TRUE, kind |-> kind,
                            args |-> <<IF shell_command.some
                                       THEN shell_command.value
                                       ELSE args>>] :
                               shell_command \in try_parse_shell_command(args)}

\* Command::parse: the commands it can return, or the error text
Command_parse(parts) ==
    IF parts = <<>>
    THEN {[ok |-> FALSE, err |-> "Failed to parse command!"]}
    ELSE LET kind == CommandKind_try_from(parts[1])
             args == join_space(Tail(parts))
         IN CASE kind = "Invalid" -> {[ok |-> FALSE, err |-> "Value is not a valid CommandType"]}
              [] kind = "Quit" -> {[ok |-> TRUE, kind |-> kind, args |-> <<>>]}
              [] OTHER -> IF args = <<>>
                          THEN {[ok |-> FALSE, err |-> "Command requires one argument"]}
                          ELSE {[ok |-> TRUE, kind |-> kind,
                                 args |-> <<IF shell_command.some
                                            THEN shell_command.value
                                            ELSE args>>] :
                                    shell_command \in try_parse_shell_command(args)}

\* the names of CommandKind::iter(), in the order of the enum
CommandKind_names == << <<"u", "s", "e">>, <<"c", "o", "n", "n", "e", "c", "t">>, <<"q", "u", "i", "t">> >>

\* sublime_fuzzy::best_match(query, value).is_some() for a query that is not
\* empty: the characters of the query are found in the value, in their order
RECURSIVE best_match(_, _)
best_match(query, value) ==
    IF query = <<>> THEN TRUE
    ELSE IF value = <<>> THEN FALSE
    ELSE IF Head(query) = Head(value) THEN best_match(Tail(query), Tail(value))
    ELSE best_match(query, Tail(value))

\* filter_fuzzy_matches: the values the query matches, in their order.  What
\* the library answers to the empty query is not fixed by this code: every
\* value matches it, or none does
filter_fuzzy_matches(query, values) ==
    IF query = <<>>
    THEN {values, <<>>}
    ELSE {SelectSeq(values, LAMBDA value : best_match(query, value))}

\* CommandComponent::new: history is the lines of the history file, without
\* repeats and empty lines, in the order a HashSet gives them
CommandComponent_new(history) ==
    [ data |-> Message_default, is_focused |-> FALSE, history |-> history,
      history_index |-> 0, history_filtered |-> history ]

\* get_shadow_text_to_render: the command name that completes the buffer
get_shadow_text_to_render(c) ==
    IF ~c.is_focused
    THEN {[some |-> FALSE, text |-> <<>>]}
    ELSE { IF kinds = <<>> \/ Len(c.data.value) >= Len(kinds[1])
           THEN [some |-> FALSE, text |-> <<>>]
           ELSE [some |-> TRUE, text |-> kinds[1]]
           : kinds \in filter_fuzzy_matches(c.data.value, CommandKind_names) }

\* refresh_history_filtered, run by Up and Down when history_index is -1
refresh_history_filtered(c) ==
    IF c.history_index = -1
    THEN {[c EXCEPT !.history_filtered = f, !.history_index = 0] :
            f \in filter_fuzzy_matches(c.data.value, c.history)}
    ELSE {c}

\* Tab in Input mode: the completion replaces the buffer
command_on_tab(c) ==
    { IF shadow.some THEN Ok([c EXCEPT !.data.value = shadow.text], <<>>) ELSE Ok(c, <<>>)
      : shadow \in get_shadow_text_to_render(c) }

\* Up in Input mode
command_on_up(c) ==
    { IF u.history_index + 1 <= Len(u.history_filtered)
      THEN Ok([u EXCEPT !.data.value = u.history_filtered[u.history_index + 1],
                        !.history_index = @ + 1], <<>>)
      ELSE Ok(u, <<>>)
      : u \in refresh_history_filtered(c) }

\* Down in Input mode
command_on_down(c) ==
    { IF u.history_index # 0
      THEN IF u.history_index <= Len(u.history_filtered)
           THEN Ok([u EXCEPT !.data.value = u.history_filtered[u.history_index],
                             !.history_index = @ - 1], <<>>)
           ELSE Ok([u EXCEPT !.history_index = @ - 1], <<>>)
      ELSE Ok(u, <<>>)
      : u \in refresh_history_filtered(c) }

\* a submit that takes `use` for `connect`
command_on_submit_connect(c) ==
    LET u == [c EXCEPT !.is_focused = FALSE, !.history_index = -1]
        done == [u EXCEPT !.data.value = <<>>]
    IN { IF ~command.ok
         THEN Ok([u EXCEPT !.data = [value |-> <<command.err>>, severity |-> "Error"]], <<>>)
         ELSE CASE command.kind \in {"Use", "Connect"} ->
                      Ok(done, <<OnConnection("Connect", command.args[1])>>)
                [] OTHER -> Ok(done, <<OnQuit>>)
         : command \in Command_parse(split_space(c.data.value)) }

\* Enter in Input mode: parse the buffer and emit the command's event
command_on_submit(c) ==
    LET u == [c EXCEPT !.is_focused = FALSE, !.history_index = -1]
        done == [u EXCEPT !.data.value = <<>>]
    IN { IF ~command.ok
         THEN Ok([u EXCEPT !.data = [value |-> <<command.err>>, severity |-> "Error"]], <<>>)
         ELSE CASE command.kind = "Use" ->
                      Ok(done, <<OnConnection("SwitchDatabase", command.args[1])>>)
                [] command.kind = "Connect" ->
                      Ok(done, <<OnConnection("Connect", command.args[1])>>)
                [] OTHER -> Ok(done, <<OnQuit>>)
         : command \in Command_parse(split_space(c.data.value)) }

CommandComponent_on_event(c, event) ==
    CASE event.type = "OnMessage" ->
            {Ok([c EXCEPT !.data = [severity |-> event.severity, value |-> event.value]], <<>>)}
      [] event.type = "OnInput" /\ event.mode = "View" ->
            IF event.key = ":"
            THEN {Ok([c EXCEPT !.is_focused = TRUE,
                               !.data = Message_default,
                               !.history_index = 0], <<>>)}
            ELSE {Ok(c, <<>>)}
      [] event.type = "OnInput" /\ event.mode = "Input" ->
            CASE event.key = "Esc" ->
                    {Ok([c EXCEPT !.data = Message_default,
                                  !.history_index = 0,
                                  !.is_focused = FALSE], <<>>)}
              [] event.key \in Chars ->
                    {Ok([c EXCEPT !.data.value = Append(@, event.key),
                                  !.history_index = -1], <<>>)}
              [] event.key = "Backspace" ->
                    {Ok([c EXCEPT !.data.value = IF @ = <<>> THEN @ ELSE SubSeq(@, 1, Len(@) - 1),
                                  !.history_index = -1], <<>>)}
              [] event.key = "Tab" -> command_on_tab(c)
              [] event.key = "Up" -> command_on_up(c)
              [] event.key = "Down" -> command_on_down(c)
              [] event.key = "Enter" -> command_on_submit(c)
              [] OTHER -> {Ok(c, <<>>)}
      [] OTHER -> {Ok(c, <<>>)}

(***************************************************************************)
(* ResourceManager (managers/resource_manager.rs)                          *)
(***************************************************************************)
\* a registry whose Update replaces the last slot
ResourceManager_on_event_last(resources, event) ==
    IF event.kind = "Add"
    THEN Append(resources, event.res)
    ELSE IF resources = <<>>
         THEN Append(resources, event.res)
         ELSE [resources EXCEPT ![Len(resources)] = event.res]

\* ResourceManager::on_event
ResourceManager_on_event(resources, event) ==
    IF event.kind = "Add"
    THEN Append(resources, event.res)
    ELSE IF resources = <<>>
         THEN Append(resources, event.res)
         ELSE [resources EXCEPT ![1] = event.res]

\* The connector resource: an OnQuery starts a background task that runs
\* get_data; the handler itself does not wait for it.
ConnectorResource_on_event(tasks, event) ==
    IF event.type = "OnQuery"
    THEN {Ok(Append(tasks, [query |-> event.query, pagination |-> event.pagination]), <<>>)}
    ELSE {Ok(tasks, <<>>)}

(***************************************************************************)
(* App (application.rs) and EventManager::pool (managers/event_manager.rs) *)
(***************************************************************************)
\* an on_key whose Esc does not leave Input mode
on_key_mode_enter_only(mode, key) ==
    IF mode = "View"
    THEN IF key = ":" THEN "Input" ELSE "View"
    ELSE IF key = "Enter" THEN "View" ELSE "Input"

\* App::on_key: the mode after the key
on_key_mode(mode, key) ==
    IF mode = "View"
    THEN IF key = ":" THEN "Input" ELSE "View"
    ELSE IF key = "Enter" \/ key = "Esc" THEN "View" ELSE "Input"

\* receiver.try_recv(): the oldest event of the channel
try_recv(q) == Head(q)

\* a pool whose should_quit only remembers the last event
pool_should_quit_last(should_quit, event) == event.type = "OnQuit"

\* pool: should_quit once an OnQuit has been dispatched
pool_should_quit(should_quit, event) == should_quit \/ event.type = "OnQuit"

\* App::on_update: should_exit after pool returned Ok(should_quit)
on_update_ok(should_exit, should_quit) == should_quit

\* the component handlers of the focused window, in the order of the layout
Components == <<"table", "status_line", "command">>

(***************************************************************************)
(* Connectors: get_data (connectors/mongodb, connectors/postgresql).  The  *)
(* backend holds Size rows in a fixed order; row i is [id |-> i].          *)
(***************************************************************************)
None == -1

BackendSizes == {0, 50, 100, 250}

SubCommands ==
    { [type |-> "Count"], [type |-> "Explain"], [type |-> "Skip", amount |-> 3],
      [type |-> "Limit", amount |-> 5], [type |-> "Limit", amount |-> 150] }

\* every modifier
AllSubCommands ==
    SubCommands \cup {[type |-> "Sort"], [type |-> "AllowDiskUse"], [type |-> "Hint"]}

\* every primary command
CommandKinds == {"Find", "Count", "Aggregate", "Distinct", "GetIndexes"}

\* the sequences of 1..n elements of S
RECURSIVE SeqsUpTo(_, _)
SeqsUpTo(S, n) ==
    IF n = 0 THEN {}
    ELSE {<<x>> : x \in S} \cup {<<x>> \o t : x \in S, t \in SeqsUpTo(S, n - 1)}

\* the queries: a primary command followed by at most one modifier
MongoQueries ==
    [ kind : {"Find", "Count", "Aggregate", "Distinct"},
      subs : {<<>>} \cup {<<c>> : c \in SubCommands} ]

\* SQL text, with or without a LIMIT clause of its own
PostgresQueries == [ kind : {"Select"}, subs : {<<>>, <<[type |-> "Limit", amount |-> 5]>>} ]

DataOk(rows) == [res |-> "Ok", rows |-> rows]

DataErr == [res |-> "Err", rows |-> <<>>]

DataPanic == [res |-> "Panic", rows |-> <<>>]

\* the server: rows skip+1 .. skip+limit of the Size rows, in order
backend_rows(size, skip, limit) ==
    LET hi == Min(size, skip + limit)
    IN IF hi > skip THEN [i \in 1..(hi - skip) |-> [id |-> skip + i]] ELSE <<>>

\* the server: a {"$count": "count"} stage yields one document, none for no input
backend_count(size) == IF size = 0 THEN <<>> ELSE <<[count |-> size]>>

\* the server: the distinct values of a field that differs in every row
backend_distinct(size) == [i \in 1..size |-> [result |-> i]]

\* a cursor drained without the cap of MAXIMUM_DOCUMENTS
cursor_drain_all(rows) == rows

\* execute_db_call, Cursor branch: documents are pushed until the cursor ends
\* or MAXIMUM_DOCUMENTS have been pushed
cursor_drain(rows) == SubSeq(rows, 1, Min(Len(rows), MAXIMUM_DOCUMENTS))

\* execute_db_call, Bson branch: every value is pushed
bson_drain(values) == values

FindQuery_default ==
    [ skip |-> None, limit |-> None, count |-> FALSE, explain |-> FALSE,
      sort |-> FALSE, allow_disk_use |-> FALSE, hint |-> FALSE ]

AggregateQuery_default ==
    [ skip |-> None, limit |-> None, explain |-> FALSE, allow_disk_use |-> FALSE,
      hint |-> FALSE ]

CountQuery_default == [allow_disk_use |-> FALSE]

Command_try_from(kind) ==
    CASE kind = "Find" -> [kind |-> kind, q |-> FindQuery_default]
      [] kind = "Aggregate" -> [kind |-> kind, q |-> AggregateQuery_default]
      [] kind = "Count" -> [kind |-> kind, q |-> CountQuery_default]
      [] OTHER -> [kind |-> kind, q |-> [explain |-> FALSE]]

FindQuery_add_sub_query(q, sub) ==
    CASE sub.type = "Count" -> [res |-> "Ok", q |-> [q EXCEPT !.count = TRUE]]
      [] sub.type = "Sort" -> [res |-> "Ok", q |-> [q EXCEPT !.sort = TRUE]]
      [] sub.type = "AllowDiskUse" -> [res |-> "Ok", q |-> [q EXCEPT !.allow_disk_use = TRUE]]
      [] sub.type = "Explain" -> [res |-> "Ok", q |-> [q EXCEPT !.explain = TRUE]]
      [] sub.type = "Hint" -> [res |-> "Ok", q |-> [q EXCEPT !.hint = TRUE]]
      [] sub.type = "Skip" -> [res |-> "Ok", q |-> [q EXCEPT !.skip = sub.amount]]
      [] OTHER -> [res |-> "Ok", q |-> [q EXCEPT !.limit = sub.amount]]

CountQuery_add_sub_query(q, sub) ==
    IF sub.type = "AllowDiskUse"
    THEN [res |-> "Ok", q |-> [q EXCEPT !.allow_disk_use = TRUE]]
    ELSE [res |-> "Err", q |-> q]

AggregateQuery_add_sub_query(q, sub) ==
    CASE sub.type = "Count" -> [res |-> "Panic", q |-> q]
      [] sub.type = "AllowDiskUse" -> [res |-> "Ok", q |-> [q EXCEPT !.allow_disk_use = TRUE]]
      [] sub.type = "Explain" -> [res |-> "Ok", q |-> [q EXCEPT !.explain = TRUE]]
      [] sub.type = "Hint" -> [res |-> "Ok", q |-> [q EXCEPT !.hint = TRUE]]
      [] sub.type = "Skip" -> [res |-> "Ok", q |-> [q EXCEPT !.skip = sub.amount]]
      [] sub.type = "Limit" -> [res |-> "Ok", q |-> [q EXCEPT !.limit = sub.amount]]
      [] OTHER -> [res |-> "Err", q |-> q]

\* Command::add_sub_query: for the remaining commands the call is made on the
\* Command itself again, so it never returns and the stack overflows
Command_add_sub_query(c, sub) ==
    CASE c.kind = "Find" -> FindQuery_add_sub_query(c.q, sub)
      [] c.kind = "Count" -> CountQuery_add_sub_query(c.q, sub)
      [] c.kind = "Aggregate" -> AggregateQuery_add_sub_query(c.q, sub)
      [] OTHER -> [res |-> "Panic", q |-> c.q]

\* The expressions execute_db_call consumes, as resolve_call_expression has
\* pushed them, the next one to pop first.  A name is an Identifier holding
\* that string, "1" an Identifier holding a number, "()" a
\* ParametersExpression without parameters and "(p)" one with the parameters
\* of the query.  A parameter is its kind: "Array" is a non-empty array of
\* objects.
SegmentNames == {"db", "a", "find", "FIND"}

SegmentItems == SegmentNames \cup {"1", "()", "(p)"}

\* what may follow the primary command
ModifierItems == {"count", "()", "(p)"}

CommandNames == {"find", "FIND", "count", "aggregate", "distinct", "getIndexes", "drop"}

ParamKinds == {"Object", "Array", "EmptyArray", "String", "Number"}

\* str::to_lowercase on the names of the model
str_to_lowercase(name) ==
    CASE name = "FIND" -> "find"
      [] name = "getIndexes" -> "getindexes"
      [] OTHER -> name

\* InterpreterMongo::consume::<T>: the popped expression as a T
InterpreterMongo_consume(expressions, type) ==
    IF expressions = <<>>
    THEN [res |-> "Panic", value |-> "", rest |-> <<>>]
    ELSE IF (type = "ParametersExpression") = (Head(expressions) \in {"()", "(p)"})
    THEN [res |-> "Ok", value |-> Head(expressions), rest |-> Tail(expressions)]
    ELSE [res |-> "Err", value |-> "", rest |-> Tail(expressions)]

\* InterpreterMongo::try_get_next_literal::<String>
try_get_next_literal(expressions) ==
    LET identifier == InterpreterMongo_consume(expressions, "Identifier")
    IN IF identifier.res = "Ok" /\ identifier.value = "1"
       THEN [identifier EXCEPT !.res = "Err"]
       ELSE identifier

\* a Command::try_from that takes every command for find
Command_try_from_any(command, params) ==
    IF Len(params) > 2 THEN [res |-> "Err", kind |-> "None"] ELSE [res |-> "Ok", kind |-> "Find"]

\* Command::try_from((command, params)): the primary command of the name
Command_try_from_params(command, params) ==
    LET name == str_to_lowercase(command)
        err == [res |-> "Err", kind |-> "None"]
    IN CASE name = "getindexes" -> [res |-> "Ok", kind |-> "GetIndexes"]
         [] name = "find" ->
                IF Len(params) > 2 THEN err ELSE [res |-> "Ok", kind |-> "Find"]
         [] name = "count" -> [res |-> "Ok", kind |-> "Count"]
         [] name = "aggregate" ->
                IF params = <<>> THEN err
                ELSE IF params[1] \notin {"Array", "EmptyArray"} THEN err
                ELSE IF params[1] = "EmptyArray" THEN err
                ELSE [res |-> "Ok", kind |-> "Aggregate"]
         [] name = "distinct" ->
                IF Len(params) > 3 \/ params = <<>> THEN err
                ELSE IF params[1] \notin {"String", "Number"} THEN err
                ELSE IF params[1] = "Number" THEN [res |-> "Panic", kind |-> "None"]
                ELSE [res |-> "Ok", kind |-> "Distinct"]
         [] OTHER -> err

\* SubCommand::try_from((command, params)) on the names of the model
SubCommand_try_from(command, params) ==
    IF str_to_lowercase(command) = "count" /\ params = <<>>
    THEN [res |-> "Ok", sub |-> [type |-> "Count"]]
    ELSE [res |-> "Err", sub |-> [type |-> "None"]]

\* the parameters a ParametersExpression of the model holds
params_of(expression, params) == IF expression = "(p)" THEN params ELSE <<>>

\* execute_db_call up to the primary command: db, the collection, the
\* command and its parameters are popped and Command::try_from is called
InterpreterMongo_main_command(expressions, params) ==
    LET db == try_get_next_literal(expressions)
        collection_name == try_get_next_literal(db.rest)
        command_type == try_get_next_literal(collection_name.rest)
        parameters == InterpreterMongo_consume(command_type.rest, "ParametersExpression")
        stop(res) == [res |-> res, kind |-> "None", rest |-> <<>>]
    IN IF db.res # "Ok" THEN stop(db.res)
       ELSE IF db.value # "db" THEN stop("Err")
       ELSE IF collection_name.res # "Ok" THEN stop(collection_name.res)
       ELSE IF command_type.res # "Ok" THEN stop(command_type.res)
       ELSE IF parameters.res # "Ok" THEN stop(parameters.res)
       ELSE LET main_command ==
                    Command_try_from_params(command_type.value,
                                            params_of(parameters.value, params))
            IN [res |-> main_command.res, kind |-> main_command.kind, rest |-> parameters.rest]

\* one turn of the while loop of execute_db_call: a modifier and its
\* parameters are popped and attached
InterpreterMongo_sub_query(c, expressions, params) ==
    LET command == try_get_next_literal(expressions)
        parameters == InterpreterMongo_consume(command.rest, "ParametersExpression")
        stop(res) == [res |-> res, q |-> c.q, rest |-> <<>>]
    IN IF command.res # "Ok" THEN stop(command.res)
       ELSE IF parameters.res # "Ok" THEN stop(parameters.res)
       ELSE LET sub == SubCommand_try_from(command.value, params_of(parameters.value, params))
            IN IF sub.res # "Ok" THEN stop(sub.res)
               ELSE LET added == Command_add_sub_query(c, sub.sub)
                    IN [res |-> added.res, q |-> added.q, rest |-> parameters.rest]

\* the builds: the response, a cursor or a list of values
FindQuery_build(q, size, pagination) ==
    IF q.explain
    THEN [type |-> "Bson", rows |-> <<[explain |-> "find"]>>]
    ELSE IF q.count
         THEN [type |-> "Cursor", rows |-> backend_count(size)]
         ELSE LET skip == pagination.start
                  limit == IF q.limit = None THEN pagination.limit ELSE q.limit
              IN [type |-> "Cursor", rows |-> backend_rows(size, skip, limit)]

DistinctQuery_build(q, size, pagination) ==
    [type |-> "Bson", rows |-> backend_distinct(size)]

CountQuery_build(q, size, pagination) ==
    [type |-> "Cursor", rows |-> backend_count(size)]

AggregateQuery_build(q, size, pagination) ==
    LET skip == pagination.start + (IF q.skip = None THEN 0 ELSE q.skip)
        limit == IF q.limit = None THEN pagination.limit ELSE q.limit
    IN IF q.explain
       THEN [type |-> "Bson", rows |-> <<[explain |-> "aggregate"]>>]
       ELSE [type |-> "Cursor", rows |-> backend_rows(size, skip, limit)]

Command_build(c, size, pagination) ==
    CASE c.kind = "Find" -> FindQuery_build(c.q, size, pagination)
      [] c.kind = "Count" -> CountQuery_build(c.q, size, pagination)
      [] c.kind = "Aggregate" -> AggregateQuery_build(c.q, size, pagination)
      [] OTHER -> DistinctQuery_build(c.q, size, pagination)

\* InterpreterMongo::execute_db_call
InterpreterMongo_execute_db_call(query, size, pagination) ==
    LET main_command == Command_try_from(query.kind)
        added == IF query.subs = <<>>
                 THEN [res |-> "Ok", q |-> main_command.q]
                 ELSE Command_add_sub_query(main_command, query.subs[1])
    IN IF added.res = "Panic" THEN DataPanic
       ELSE IF added.res = "Err" THEN DataErr
       ELSE LET database_response ==
                    Command_build([main_command EXCEPT !.q = added.q], size, pagination)
            IN IF database_response.type = "Cursor"
               THEN DataOk(cursor_drain(database_response.rows))
               ELSE DataOk(bson_drain(database_response.rows))

MongodbConnector_get_data(query, size, pagination) ==
    InterpreterMongo_execute_db_call(query, size, pagination)

\* PostgresqlConnector::get_data: the text is run with " LIMIT <limit>;"
\* appended; a text with a LIMIT of its own is then rejected by the server
PostgresqlConnector_get_data(query, size, pagination) ==
    IF query.subs # <<>>
    THEN DataErr
    ELSE DataOk(backend_rows(size, 0, pagination.limit))

get_data(connector, query, size, pagination) ==
    IF connector = "mongodb"
    THEN MongodbConnector_get_data(query, size, pagination)
    ELSE PostgresqlConnector_get_data(query, size, pagination)

\* the window of page k as the table requests it
window(k) == [start |-> k * (LIMIT - 1), limit |-> LIMIT]

(***************************************************************************)
(* Number (rusty_db_cli_mongo/src/types/literals.rs).  A text is the       *)
(* sequence of its characters; an i32 is an integer of the model, an i64   *)
(* or an f64 is the text that to_string gives for it.                      *)
(***************************************************************************)
I32_MAX == 2147483647

I32_MIN == (-2147483647) - 1

I32_MAX_digits == <<"2", "1", "4", "7", "4", "8", "3", "6", "4", "7">>

I32_MIN_digits == <<"2", "1", "4", "7", "4", "8", "3", "6", "4", "8">>

I64_MAX_digits == <<"9", "2", "2", "3", "3", "7", "2", "0", "3", "6", "8", "5", "4", "7", "7", "5", "8", "0", "7">>

I64_MIN_digits == <<"9", "2", "2", "3", "3", "7", "2", "0", "3", "6", "8", "5", "4", "7", "7", "5", "8", "0", "8">>

DigitChars == {"0", "1", "2", "3", "4", "5", "6", "7", "8", "9"}

digit_value(c) ==
    CASE c = "0" -> 0 [] c = "1" -> 1 [] c = "2" -> 2 [] c = "3" -> 3 [] c = "4" -> 4
      [] c = "5" -> 5 [] c = "6" -> 6 [] c = "7" -> 7 [] c = "8" -> 8 [] OTHER -> 9

\* a text without its leading zeros (one digit is kept)
RECURSIVE strip_zeros(_)
strip_zeros(s) == IF Len(s) > 1 /\ Head(s) = "0" THEN strip_zeros(Tail(s)) ELSE s

\* the digits of a text that may begin with a sign
unsigned(s) == IF s # <<>> /\ Head(s) = "-" THEN Tail(s) ELSE s

is_negative(s) == s # <<>> /\ Head(s) = "-"

\* a <= b for two numbers written without leading zeros
RECURSIVE digits_le(_, _)
digits_le(a, b) ==
    IF Len(a) # Len(b) THEN Len(a) < Len(b)
    ELSE IF a = <<>> THEN TRUE
    ELSE IF Head(a) # Head(b) THEN digit_value(Head(a)) < digit_value(Head(b))
    ELSE digits_le(Tail(a), Tail(b))

\* the syntax str::parse takes for an integer: an optional `-`, then digits
is_integer_text(s) ==
    /\ unsigned(s) # <<>>
    /\ \A i \in 1..Len(unsigned(s)) : unsigned(s)[i] \in DigitChars

\* str::parse::<i32>: digit by digit, with checked multiplication and
\* checked addition (subtraction for a negative number)
RECURSIVE parse_i32_loop(_, _, _)
parse_i32_loop(s, acc, is_positive) ==
    IF s = <<>> THEN [res |-> "Ok", value |-> acc]
    ELSE IF Head(s) \notin DigitChars THEN [res |-> "Err", value |-> 0]
    ELSE LET d == digit_value(Head(s))
         IN IF is_positive
            THEN IF acc > (I32_MAX - d) \div 10
                 THEN [res |-> "Err", value |-> 0]
                 ELSE parse_i32_loop(Tail(s), acc * 10 + d, is_positive)
            ELSE IF acc < ((I32_MIN + d) + 9) \div 10
                 THEN [res |-> "Err", value |-> 0]
                 ELSE parse_i32_loop(Tail(s), acc * 10 - d, is_positive)

parse_i32(s) ==
    IF unsigned(s) = <<>> THEN [res |-> "Err", value |-> 0]
    ELSE parse_i32_loop(unsigned(s), 0, ~is_negative(s))

\* i64::to_string of the number a text denotes
int_to_string(s) ==
    LET m == strip_zeros(unsigned(s))
    IN IF is_negative(s) /\ m # <<"0">> THEN <<"-">> \o m ELSE m

\* str::parse::<i64>: the value as its text, an error outside the range
parse_i64(s) ==
    IF /\ is_integer_text(s)
       /\ digits_le(strip_zeros(unsigned(s)),
                    IF is_negative(s) THEN I64_MIN_digits ELSE I64_MAX_digits)
    THEN [res |-> "Ok", text |-> int_to_string(s)]
    ELSE [res |-> "Err", text |-> <<>>]

\* str::parse::<f64> on a text of digits, `-` and `.` that holds a `.`
parse_f64(s) ==
    LET u == unsigned(s)
    IN IF /\ \A i \in 1..Len(u) : u[i] \in DigitChars \cup {"."}
          /\ Cardinality({i \in 1..Len(u) : u[i] = "."}) = 1
          /\ Len(u) > 1
       THEN [res |-> "Ok", text |-> s]
       ELSE [res |-> "Err", text |-> <<>>]

NumberErr == [res |-> "Err", variant |-> "None", text |-> <<>>]

\* Number::from_str
Number_from_str(s) ==
    IF \E i \in 1..Len(s) : s[i] = "."
    THEN IF parse_f64(s).res = "Ok"
         THEN [res |-> "Ok", variant |-> "F64", text |-> parse_f64(s).text]
         ELSE NumberErr
    ELSE IF parse_i32(s).res = "Ok"
         THEN IF parse_i32(s).value = I32_MAX \/ parse_i32(s).value = I32_MIN
              THEN IF parse_i64(s).res = "Ok"
                   THEN [res |-> "Ok", variant |-> "I64", text |-> parse_i64(s).text]
                   ELSE NumberErr
              ELSE [res |-> "Ok", variant |-> "I32", text |-> int_to_string(s)]
         ELSE IF parse_i64(s).res = "Ok"
              THEN [res |-> "Ok", variant |-> "I64", text |-> parse_i64(s).text]
              ELSE NumberErr

(***************************************************************************)
(* DatabaseValue and serde_json::Value (rusty_db_cli/src/connectors/       *)
(* base.rs).  A value is a record with its variant in `type`; an Object or *)
(* a Map is a function from its keys.  A conversion gives the value it     *)
(* returns, or the panic of an unwrap or a todo!().                        *)
(***************************************************************************)
ConvOk(value) == [res |-> "Ok", value |-> value]

ConvPanic == [res |-> "Panic"]

\* the results of converting every item of a sequence, in order
all_ok(results) == \A i \in DOMAIN results : results[i].res = "Ok"

values_of(results) == [i \in DOMAIN results |-> results[i].value]

\* f64::is_finite on the text of an f64
f64_is_finite(text) == text \notin {<<"N", "a", "N">>, <<"i", "n", "f">>}

\* impl From<Number> for serde_json::Number
Number_into_json(number) ==
    CASE number.variant = "F64" ->
            IF f64_is_finite(number.text)
            THEN ConvOk([n |-> "Float", text |-> number.text])
            ELSE ConvPanic
      [] number.variant = "I64" ->
            ConvOk([n |-> IF is_negative(number.text) THEN "NegInt" ELSE "PosInt",
                    text |-> number.text])
      [] OTHER ->
            ConvOk([n |-> IF is_negative(number.text) THEN "NegInt" ELSE "PosInt",
                    text |-> number.text])

\* serde_json::Number::to_string
json_number_to_string(number) == number.text

\* impl From<DatabaseValue> for serde_json::Value, with
\* impl From<Object> for serde_json::Value
RECURSIVE DatabaseValue_into_json(_)
DatabaseValue_into_json(val) ==
    CASE val.type = "String" -> ConvOk([type |-> "String", str |-> val.str])
      [] val.type = "Number" ->
            LET number == Number_into_json(val.number)
            IN IF number.res = "Ok"
               THEN ConvOk([type |-> "Number", number |-> number.value])
               ELSE ConvPanic
      [] val.type = "Array" ->
            LET items == [i \in DOMAIN val.arr |-> DatabaseValue_into_json(val.arr[i])]
            IN IF all_ok(items)
               THEN ConvOk([type |-> "Array", arr |-> values_of(items)])
               ELSE ConvPanic
      [] val.type = "Object" ->
            LET entries == [key \in DOMAIN val.obj |-> DatabaseValue_into_json(val.obj[key])]
            IN IF all_ok(entries)
               THEN ConvOk([type |-> "Object", map |-> values_of(entries)])
               ELSE ConvPanic
      [] val.type = "Bool" -> ConvOk([type |-> "Bool", bool |-> val.bool])
      [] OTHER -> ConvOk([type |-> "Null"])

\* impl From<serde_json::Value> for DatabaseValue
RECURSIVE DatabaseValue_from_json(_)
DatabaseValue_from_json(val) ==
    CASE val.type = "Null" -> ConvOk([type |-> "Null"])
      [] val.type = "Bool" -> ConvOk([type |-> "Bool", bool |-> val.bool])
      [] val.type = "Number" ->
            LET number == Number_from_str(json_number_to_string(val.number))
            IN IF number.res = "Ok"
               THEN ConvOk([type |-> "Number",
                            number |-> [variant |-> number.variant, text |-> number.text]])
               ELSE ConvPanic
      [] val.type = "String" -> ConvOk([type |-> "String", str |-> val.str])
      [] val.type = "Array" ->
            LET items == [i \in DOMAIN val.arr |-> DatabaseValue_from_json(val.arr[i])]
            IN IF all_ok(items)
               THEN ConvOk([type |-> "Array", arr |-> values_of(items)])
               ELSE ConvPanic
      [] OTHER -> ConvPanic

(***************************************************************************)
(* Lexer (rusty_db_cli_mongo/src/lexer.rs).  The source is a sequence of   *)
(* characters; "e'" and "2'" stand for a two-byte letter and a two-byte    *)
(* numeric character that is no ASCII digit (such as a superscript two).   *)
(***************************************************************************)
LexChars == {"a", "1", "e'", "2'", "\"", "\\", ".", "/", "-", " ", "#", "(", "\n", "i"}

NUL == "NUL"

\* the character asked for does not exist: Option::unwrap panics
NoChar == "unwrap on None"

is_ascii_digit(c) == c = "1"

is_numeric(c) == c \in {"1", "2'"}

is_alphabetic(c) == c \in {"a", "i", "e'"}

is_ascii_alphabetic(c) == c \in {"a", "i"}

len_utf8(c) == IF c \in {"e'", "2'"} THEN 2 ELSE 1

RECURSIVE source_len(_)
source_len(src) == IF src = <<>> THEN 0 ELSE len_utf8(Head(src)) + source_len(Tail(src))

Lexer_new(source) ==
    [ source |-> source, tokens |-> <<>>, errors |-> <<>>, start |-> 0, current |-> 0,
      current_in_bytes |-> 0, current_string |-> <<>>, line |-> 0,
      res |-> "Scanning", overflow |-> FALSE ]

is_at_end(l) == l.current >= Len(l.source)

\* the character that starts at byte current_in_bytes, which is character
\* number current of the source
peek(l) == IF is_at_end(l) THEN NUL ELSE l.source[l.current + 1]

\* the bound is the length in bytes, the index is in characters
peek_next(l) ==
    IF l.current + 1 >= source_len(l.source) THEN NUL
    ELSE IF l.current + 2 <= Len(l.source) THEN l.source[l.current + 2]
    ELSE NoChar

advance(l) ==
    [l EXCEPT !.current_in_bytes = @ + len_utf8(peek(l)),
              !.current = @ + 1,
              !.current_string = Append(@, peek(l))]

Panicked(l) == [l EXCEPT !.res = "Panic"]

\* Lexer::error: position is tokens.len() - 1 in usize
Lexer_error(l, message) ==
    [l EXCEPT !.errors = Append(@, [message |-> message,
                                    position |-> AsUsize(Len(l.tokens) - 1),
                                    line |-> l.line]),
              !.overflow = (@ \/ Len(l.tokens) = 0)]

\* serde_json::from_str of the text between the quotes
RECURSIVE json_string_ok(_)
json_string_ok(text) ==
    IF text = <<>> THEN TRUE
    ELSE IF Head(text) = "\""  THEN FALSE
    ELSE IF Head(text) = "\\"
         THEN /\ Len(text) >= 2
              /\ text[2] \in {"\"", "\\", "/"}
              /\ json_string_ok(Tail(Tail(text)))
         ELSE json_string_ok(Tail(text))

\* Number::from_str of the lexeme
Number_from_str_ok(lexeme) == \A i \in 1..Len(lexeme) : lexeme[i] # "2'"

add_token(l, type) ==
    LET lexeme == l.current_string
        inner == SubSeq(lexeme, 2, Len(lexeme) - 1)
        token_type == IF type = "String" /\ ~json_string_ok(inner) THEN "Unknown" ELSE type
    IN IF type = "Number" /\ ~Number_from_str_ok(lexeme)
       THEN Panicked(l)
       ELSE [l EXCEPT !.tokens = Append(@, [type |-> token_type, lexeme |-> lexeme,
                                            start |-> l.start, end |-> l.current - 1,
                                            line |-> l.line])]

\* the loop of string() and of regex(): up to the closing character c, an
\* escaped c or an escaped backslash being skipped
RECURSIVE scan_until(_, _)
scan_until(l, c) ==
    IF peek(l) # c /\ ~is_at_end(l)
    THEN IF peek(l) = "\\" /\ peek_next(l) = NoChar
         THEN Panicked(l)
         ELSE LET is_espaced_char_or_espace ==
                      peek(l) = "\\" /\ (peek_next(l) = c \/ peek_next(l) = "\\")
                  l1 == IF is_espaced_char_or_espace THEN advance(l) ELSE l
              IN scan_until(advance(l1), c)
    ELSE l

Lexer_string(l, str_variant) ==
    LET l1 == scan_until(l, str_variant)
    IN IF l1.res = "Panic" THEN [l |-> l1, ok |-> FALSE]
       ELSE IF is_at_end(l1)
            THEN [l |-> Lexer_error(l1, "Unterminated string"), ok |-> FALSE]
            ELSE [l |-> advance(l1), ok |-> TRUE]

Lexer_regex(l) ==
    LET l1 == scan_until(l, "/")
    IN IF l1.res = "Panic" THEN [l |-> l1, ok |-> FALSE]
       ELSE IF is_at_end(l1)
            THEN [l |-> Lexer_error(l1, "Unterminated regex"), ok |-> FALSE]
            ELSE [l |-> advance(l1), ok |-> TRUE]

RECURSIVE regex_flags(_)
regex_flags(l) ==
    IF peek(l) \in {"i", "m", "x", "s", "u"} THEN regex_flags(advance(l)) ELSE l

RECURSIVE identifier(_)
identifier(l) ==
    IF is_ascii_alphabetic(peek(l)) \/ peek(l) = "$" \/ peek(l) = "_"
    THEN identifier(advance(l))
    ELSE l

RECURSIVE numeric_loop(_)
numeric_loop(l) == IF is_numeric(peek(l)) THEN numeric_loop(advance(l)) ELSE l

digit(l) ==
    LET l1 == numeric_loop(l)
    IN IF peek(l1) = "."
       THEN IF peek_next(l1) = NoChar THEN Panicked(l1)
            ELSE IF is_numeric(peek_next(l1)) THEN numeric_loop(advance(l1))
            ELSE l1
       ELSE l1

single_character_token(c) ==
    CASE c = ";" -> "Semicolon"
      [] c = "(" -> "LeftParen"
      [] c = ")" -> "RightParen"
      [] c = "{" -> "LeftBrace"
      [] c = "}" -> "RightBrace"
      [] c = "[" -> "LeftBracket"
      [] c = "]" -> "RightBracket"
      [] c = "." -> "Dot"
      [] c = "," -> "Comma"
      [] c = ":" -> "Colon"
      [] OTHER -> "None"

\* one turn of the loop of scan_tokens: start is set, then scan_token
scan_token(l0) ==
    LET l == [l0 EXCEPT !.start = l0.current, !.current_string = <<>>]
        c == peek(l)
        l1 == advance(l)
    IN CASE c \in {" ", "\r", "\t"} -> l1
         [] c = "\n" -> [l1 EXCEPT !.line = @ + 1]
         [] single_character_token(c) # "None" -> add_token(l1, single_character_token(c))
         [] c \in {"\"", "'"} ->
                LET r == Lexer_string(l1, c)
                IN IF r.l.res = "Panic" THEN r.l
                   ELSE add_token(r.l, IF r.ok THEN "String" ELSE "Unknown")
         [] c = "/" ->
                LET r == Lexer_regex(l1)
                    l2 == IF r.ok
                          THEN [add_token(r.l, "Regex") EXCEPT !.start = r.l.current]
                          ELSE add_token(r.l, "Unknown")
                IN IF r.l.res = "Panic" THEN r.l
                   ELSE add_token(regex_flags(l2), "RegexFlags")
         [] is_ascii_digit(c) \/ (c = "-" /\ is_numeric(peek(l1))) ->
                LET d == digit(l1)
                IN IF d.res = "Panic" THEN d ELSE add_token(d, "Number")
         [] is_alphabetic(c) \/ c = "$" \/ c = "_" -> add_token(identifier(l1), "Identifier")
         [] OTHER -> Lexer_error(add_token(l1, "Unknown"), "Unknown character")

\* tokens.len() - 1 with no token yet: a panic in a build that checks
\* arithmetic, a wrapped position otherwise
scan_token_outcomes(l) ==
    LET r == scan_token(l)
    IN IF r.res # "Panic" /\ r.overflow /\ ~l.overflow THEN {r, Panicked(r)} ELSE {r}

(***************************************************************************)
(* Parser (rusty_db_cli_mongo/src/parser.rs).  A token is its type; the    *)
(* lexer gives a literal to the tokens of the types in LiteralTypes.  The  *)
(* tree is left out: a result is the parser's position and Ok, Err with    *)
(* the message, or Panic.                                                  *)
(***************************************************************************)
TokenTypes ==
    { "Identifier", "Number", "Dot", "LeftParen", "RightParen", "LeftBrace", "RightBrace",
      "Colon", "Comma", "Regex", "RegexFlags", "LeftBracket", "RightBracket" }

LiteralTypes == {"Identifier", "String", "Number", "Regex", "RegexFlags"}

Parser_new(tokens) == [tokens |-> tokens, current |-> 0]

POk(p) == [p |-> p, res |-> "Ok", msg |-> ""]

PErr(p, msg) == [p |-> p, res |-> "Err", msg |-> msg]

PPanic(p) == [p |-> p, res |-> "Panic", msg |-> "called Option::unwrap() on a None value"]

Parser_is_at_end(p) == p.current >= Len(p.tokens)

ensure_token(p) == ~(p.current + 1 > Len(p.tokens))

ensure_next_token(p) == ~Parser_is_at_end(p)

\* Parser::peek: the type of the current token, or the error
Parser_peek(p) ==
    IF ensure_token(p)
    THEN [res |-> "Ok", type |-> p.tokens[p.current + 1]]
    ELSE [res |-> "Err", type |-> "None"]

\* Parser::peek_next: ensure_next_token looks at the current token only
Parser_peek_next(p) ==
    IF ~ensure_next_token(p) THEN [res |-> "Err", type |-> "None"]
    ELSE IF p.current + 2 <= Len(p.tokens)
         THEN [res |-> "Ok", type |-> p.tokens[p.current + 2]]
         ELSE [res |-> "Panic", type |-> "None"]

Parser_advance(p) ==
    IF ensure_token(p)
    THEN POk([p EXCEPT !.current = @ + 1])
    ELSE PErr(p, "Unexpected end of program")

consume(p, token_type) ==
    LET a == Parser_advance(p)
    IN IF a.res # "Ok" THEN a
       ELSE IF p.tokens[p.current + 1] = token_type THEN a
       ELSE PErr(a.p, "Expected token")

\* check(t)? : the early return at the end of the tokens, and the value
check_err(p) == Parser_peek(p).res # "Ok"

check(p, token_type) == Parser_peek(p).res = "Ok" /\ Parser_peek(p).type = token_type

literal_expression(p) ==
    IF Parser_peek(p).res # "Ok" THEN PErr(p, "Unexpected end of program")
    ELSE IF Parser_peek(p).type \in LiteralTypes THEN Parser_advance(p)
    ELSE PErr(p, "Expected literal")

regex_expression(p) ==
    LET regex == Parser_advance(p)
        flags == Parser_advance(regex.p)
    IN IF regex.res # "Ok" THEN regex
       ELSE IF p.tokens[p.current + 1] \notin LiteralTypes THEN PPanic(regex.p)
       ELSE IF flags.res # "Ok" THEN flags
       ELSE IF p.tokens[p.current + 2] \notin LiteralTypes THEN PPanic(flags.p)
       ELSE flags

\* the expression functions call one another through Parser_call
RECURSIVE member_expression_recursive(_), Parser_call(_, _, _)


identifier_expression(p) ==
    LET t == Parser_peek(p)
    IN IF t.res # "Ok" THEN PErr(p, "Unexpected end of program")
       ELSE CASE t.type \in {"Identifier", "Number", "String", "Bool", "Null"} ->
                    IF literal_expression(p).res = "Ok"
                    THEN literal_expression(p)
                    ELSE PErr(p, "Expected primary expression")
              [] t.type = "LeftBrace" -> Parser_call("object_expression", p, 0)
              [] t.type = "LeftBracket" -> Parser_call("array_expression", p, 0)
              [] t.type = "Regex" -> regex_expression(p)
              [] OTHER -> PErr(p, "Expected primary expression")

\* the while loop of array_expression
array_loop(p) ==
    IF check_err(p) THEN PErr(p, "Unexpected end of program")
    ELSE IF check(p, "RightBracket") THEN POk(p)
    ELSE LET i == Parser_call("identifier_expression", p, 0)
             c == IF i.res = "Ok" /\ check(i.p, "LeftParen")
                  THEN Parser_call("call_expression", i.p, 0)
                  ELSE i
             m == IF ~check(c.p, "RightBracket") THEN consume(c.p, "Comma") ELSE c
         IN IF i.res # "Ok" THEN i
            ELSE IF check_err(i.p) THEN PErr(i.p, "Unexpected end of program")
            ELSE IF c.res # "Ok" THEN c
            ELSE IF check_err(c.p)
                 THEN PErr(c.p, "Unexpected end of program")
            ELSE IF m.res # "Ok" THEN m
            ELSE Parser_call("array_loop", m.p, 0)

array_expression(p) ==
    LET o == consume(p, "LeftBracket")
        l == Parser_call("array_loop", o.p, 0)
    IN IF o.res # "Ok" THEN o
       ELSE IF l.res # "Ok" THEN l
       ELSE IF Parser_is_at_end(l.p) THEN PErr(l.p, "Expected end of array expression")
       ELSE consume(l.p, "RightBracket")

property_expression(p) ==
    LET key == literal_expression(p)
        colon == consume(key.p, "Colon")
        value == Parser_call("identifier_expression", colon.p, 0)
    IN IF key.res # "Ok" THEN key
       ELSE IF colon.res # "Ok" THEN colon
       ELSE IF value.res # "Ok" THEN value
       ELSE IF check_err(value.p)
            THEN PErr(value.p, "Unexpected end of program")
       ELSE IF check(value.p, "LeftParen") THEN Parser_call("call_expression", value.p, 0)
       ELSE value

\* the while loop of object_expression
object_loop(p, brackets) ==
    IF ~(brackets > 0 \/ Parser_is_at_end(p)) THEN POk(p)
    ELSE IF check_err(p) THEN PErr(p, "Unexpected end of program")
    ELSE IF check(p, "LeftBrace") THEN Parser_call("object_loop", Parser_advance(p).p, brackets + 1)
    ELSE IF check(p, "RightBrace") THEN Parser_call("object_loop", Parser_advance(p).p, brackets - 1)
    ELSE LET prop == Parser_call("property_expression", p, 0)
         IN IF prop.res # "Ok" THEN prop
            ELSE IF check_err(prop.p)
                 THEN PErr(prop.p, "Unexpected end of program")
            ELSE IF check(prop.p, "Comma")
                 THEN Parser_call("object_loop", Parser_advance(prop.p).p, brackets)
            ELSE Parser_call("object_loop", prop.p, brackets)

object_expression(p) ==
    LET a == Parser_advance(p)
    IN IF a.res # "Ok" THEN a ELSE Parser_call("object_loop", a.p, 1)

\* the while loop of parameters_expression
parameters_loop(p) ==
    IF check_err(p) THEN PErr(p, "Unexpected end of program")
    ELSE IF check(p, "RightParen") THEN POk(p)
    ELSE LET i == Parser_call("identifier_expression", p, 0)
         IN IF i.res # "Ok" THEN i
            ELSE IF check_err(i.p) THEN PErr(i.p, "Unexpected end of program")
            ELSE IF check(i.p, "Comma") THEN Parser_call("parameters_loop", Parser_advance(i.p).p, 0)
            ELSE Parser_call("parameters_loop", i.p, 0)

parameters_expression(p) ==
    LET o == consume(p, "LeftParen")
        l == Parser_call("parameters_loop", o.p, 0)
    IN IF o.res # "Ok" THEN o
       ELSE IF l.res # "Ok" THEN l
       ELSE IF Parser_is_at_end(l.p)
            THEN PErr(l.p, "Unexpected end of parameters expression")
       ELSE Parser_advance(l.p)

call_expression(p) ==
    LET params == Parser_call("parameters_expression", p, 0)
    IN IF params.res # "Ok" THEN params ELSE Parser_call("call_expression_recursive", params.p, 0)

call_expression_recursive(p) ==
    IF Parser_is_at_end(p) THEN POk(p)
    ELSE IF check(p, "LeftParen")
         THEN LET params == Parser_call("parameters_expression", p, 0)
              IN IF params.res # "Ok" THEN params ELSE Parser_call("call_expression_recursive", params.p, 0)
    ELSE IF check(p, "Dot")
         THEN LET member == member_expression_recursive(p)
              IN IF member.res # "Ok" THEN member ELSE Parser_call("call_expression_recursive", member.p, 0)
    ELSE POk(p)

member_expression_recursive(p) ==
    IF Parser_is_at_end(p) THEN PErr(p, "Unexpected end of member expression")
    ELSE IF check(p, "Dot")
         THEN LET dot == consume(p, "Dot")
                  object == literal_expression(dot.p)
              IN IF object.res # "Ok" THEN object ELSE member_expression_recursive(object.p)
    ELSE POk(p)

member_expression_primary(p) ==
    LET object == literal_expression(p)
        dot == consume(object.p, "Dot")
        property == literal_expression(dot.p)
    IN IF object.res # "Ok" THEN object
       ELSE IF dot.res # "Ok" THEN dot
       ELSE property

member_expression(p) ==
    LET primary_member == member_expression_primary(p)
    IN IF primary_member.res # "Ok" THEN primary_member
       ELSE member_expression_recursive(primary_member.p)

\* the functions of the parser that call one another, by name
Parser_call(fn, p, brackets) ==
    CASE fn = "identifier_expression" -> identifier_expression(p)
      [] fn = "array_loop" -> array_loop(p)
      [] fn = "array_expression" -> array_expression(p)
      [] fn = "property_expression" -> property_expression(p)
      [] fn = "object_loop" -> object_loop(p, brackets)
      [] fn = "object_expression" -> object_expression(p)
      [] fn = "parameters_loop" -> parameters_loop(p)
      [] fn = "parameters_expression" -> parameters_expression(p)
      [] fn = "call_expression" -> call_expression(p)
      [] OTHER -> call_expression_recursive(p)

\* check_next(t)? : "Ok", the early return "Err" or "Panic", and the value
check_next_res(p) == Parser_peek_next(p).res

check_next(p, token_type) ==
    Parser_peek_next(p).res = "Ok" /\ Parser_peek_next(p).type = token_type

expression_statement(p) ==
    IF check_next_res(p) = "Panic" THEN PPanic(p)
    ELSE IF check_next_res(p) = "Err" THEN PErr(p, "Unexpected end of program")
    ELSE IF check_next(p, "Dot")
         THEN LET member == member_expression(p)
              IN IF member.res # "Ok" THEN member ELSE Parser_call("call_expression", member.p, 0)
    ELSE LET i == Parser_call("identifier_expression", p, 0)
         IN IF i.res # "Ok" THEN i ELSE Parser_call("call_expression", i.p, 0)

\* one turn of the while loop of parse
parse_expression(p) ==
    IF Parser_peek(p).res # "Ok" THEN PErr(p, "Unexpected end of program")
    ELSE IF Parser_peek(p).type = "Identifier"
         THEN IF check_next_res(p) = "Panic" THEN PPanic(p)
              ELSE IF check_next_res(p) = "Err" THEN PErr(p, "Unexpected end of program")
              ELSE IF check_next(p, "Dot") \/ check_next(p, "LeftParen")
                   THEN expression_statement(p)
              ELSE PErr(p, "Expected expression, got identifier")
    ELSE PErr(p, "Expected identifier")

(***************************************************************************)
(* State                                                                   *)
(***************************************************************************)
VARIABLES
    table,        \* the ScrollableTableComponent
    sent,         \* the events sent by the last handler call (table on its own)
    last,         \* the last event handled (table on its own)
    status_line,  \* StatusLineComponent.info.data
    command,      \* the CommandComponent
    resources,    \* ResourceManager.resources
    queue,        \* the channel of the EventManager
    pc,           \* where the main thread is in its loop
    cur,          \* the event pool is dispatching
    idx,          \* the handler pool calls next
    delivered,    \* the handlers that have been handed cur
    cur_err,      \* a handler returned an error for cur
    should_quit,  \* the local of pool
    tick_quit,    \* an OnQuit has been received in this tick
    should_exit,  \* App.should_exit
    mode,         \* App.mode
    terminal,     \* raw mode and alternate screen, or restored
    keys,         \* the number of keys pressed so far
    startup,      \* the number of events the start-up task has sent
    pending,      \* the queries running in background tasks
    took,         \* the spawned "Query took" tasks that have not sent yet
    failed,       \* a query has failed since the last page was loaded
    connector,    \* the connector get_data is called on
    dquery,       \* the query get_data is called with
    size,         \* the number of rows of the backend
    wk,           \* the index of the former window
    former,       \* the result of get_data for window k
    latter,       \* the result of get_data for window k + 1
    dpc,          \* which of the two calls have been made
    plan,         \* the plan builder: command, modifiers left, outcome
    lexer,        \* the Lexer
    parser,       \* the Parser
    worker,       \* the async task list of the EventManager and its worker
    typing,       \* the keys the user is about to type into the command line
    conv,         \* a conversion on its own: the value given, the value returned
    conn          \* a connector on its own: its kind, database and info

tablevars == <<table, sent, last>>

busvars == <<status_line, command, resources, queue, pc, cur, idx, delivered, cur_err,
             should_quit, tick_quit, should_exit, mode, terminal, keys, startup,
             pending, took, failed>>

datavars == <<connector, dquery, size, wk, former, latter, dpc>>

\* the variables of the parts checked on their own
auxvars == <<plan, lexer, parser, worker, typing, conv, conn>>

vars == <<table, sent, last, status_line, command, resources, queue, pc, cur, idx,
          delivered, cur_err, should_quit, tick_quit, should_exit, mode, terminal,
          keys, startup, pending, took, failed, connector, dquery, size, wk, former,
          latter, dpc, plan, lexer, parser, worker, typing, conv, conn>>

NoEvent == [type |-> "None"]

NoData == [res |-> "None", rows |-> <<>>]

NoPlan == [kind |-> "None"]

NoParser == [tokens |-> <<>>, current |-> 0, res |-> "None"]

\* EventManager::new: the task list is empty, nothing is awaited
NoWorker == [async_events |-> <<>>, awaited |-> {}, ended |-> {}, logged |-> 0, next |-> 1]

\* no key is waiting to be typed
NoTyping == <<>>

\* no conversion is made
NoConv == [res |-> "None"]

NoConn == [kind |-> "None"]

InitAuxVars ==
    /\ plan = NoPlan
    /\ lexer = Lexer_new(<<>>)
    /\ parser = NoParser
    /\ worker = NoWorker
    /\ typing = NoTyping
    /\ conv = NoConv
    /\ conn = NoConn

InitDataVars ==
    /\ connector = "mongodb"
    /\ dquery = [kind |-> "Find", subs |-> <<>>]
    /\ size = 0
    /\ wk = 0
    /\ former = NoData
    /\ latter = NoData
    /\ dpc = "idle"

InitBusVars ==
    /\ status_line = StatusLineData_default
    /\ command = CommandComponent_new(<<>>)
    /\ resources = <<>>
    /\ queue = <<OnAsyncEvent("startup")>>
    /\ pc = "poll"
    /\ cur = NoEvent
    /\ idx = 0
    /\ delivered = <<>>
    /\ cur_err = FALSE
    /\ should_quit = FALSE
    /\ tick_quit = FALSE
    /\ should_exit = FALSE
    /\ mode = "View"
    /\ terminal = "raw"
    /\ keys = 0
    /\ startup = 0
    /\ pending = <<>>
    /\ took = 0
    /\ failed = FALSE

(***************************************************************************)
(* The table component on its own: keys in View mode and the pages that    *)
(* answer its queries.                                                     *)
(***************************************************************************)
TableKeys == {"Down", "Up", "Left", "Right", "r", "Enter"}

\* the pages a query can return: no rows (and so no header), or rows with
\* one to MaxCols distinct keys
PageShapes == {<<0, 0>>} \cup ((RowCounts \ {0}) \X (1..MaxCols))

InitTable ==
    /\ table = ScrollableTableComponent_new("db.a.find()")
    /\ sent = <<>>
    /\ last = [type |-> "Init"]
    /\ InitBusVars
    /\ InitDataVars
    /\ InitAuxVars

\* a key reaches the table in View mode
TableInput ==
    \E k \in TableKeys :
      \E o \in ScrollableTableComponent_on_event(table, OnInput("View", k)) :
        /\ last.type # "Panic"
        /\ o.t.pagination.start <= MaxPages * (LIMIT - 1)
        /\ table' = o.t
        /\ sent' = o.out
        /\ last' = IF o.res = "Panic" THEN [type |-> "Panic"]
                   ELSE [type |-> "OnInput", key |-> k, res |-> o.res]
        /\ UNCHANGED <<busvars, datavars, auxvars>>

\* a page answering the table's query reaches the table
TableData ==
    \E shape \in PageShapes :
      LET page == Page(table.query, table.pagination.start, shape[1], shape[2])
      IN \E o \in ScrollableTableComponent_on_event(table, DatabaseData(page, TRUE)) :
            /\ last.type # "Panic"
            /\ table' = o.t
            /\ sent' = o.out
            /\ last' = [type |-> "DatabaseData"]
            /\ UNCHANGED <<busvars, datavars, auxvars>>

NextTable == TableInput \/ TableData

SpecTable == InitTable /\ [][NextTable]_vars

(***************************************************************************)
(* The table with the external editor: keys, the connection and pages      *)
(***************************************************************************)
EditKeys == {"i", "r", "Down"}

EditPageShapes == {<<0, 0>>, <<1, 1>>, <<LIMIT, 1>>}

\* a key reaches the table in View mode
EditInput ==
    \E key \in EditKeys :
      \E o \in ScrollableTableComponent_on_event(table, OnInput("View", key)) :
        /\ last.type # "Panic"
        /\ o.t.pagination.start <= MaxPages * (LIMIT - 1)
        /\ table' = o.t
        /\ sent' = o.out
        /\ last' = [type |-> "OnInput", key |-> key, res |-> o.res]
        /\ UNCHANGED <<busvars, datavars, auxvars>>

\* the connector is ready: its info reaches the table
EditConnection ==
    \E o \in ScrollableTableComponent_on_event(table, OnConnection("SwitchConnection", SomeInfo)) :
        /\ last.type # "Panic"
        /\ table.connector_info = NoInfo
        /\ table' = o.t
        /\ sent' = o.out
        /\ last' = [type |-> "OnConnection"]
        /\ UNCHANGED <<busvars, datavars, auxvars>>

\* a page answering the table's query reaches the table
EditData ==
    \E shape \in EditPageShapes :
      LET page == Page(table.query, table.pagination.start, shape[1], shape[2])
      IN \E o \in ScrollableTableComponent_on_event(table, DatabaseData(page, TRUE)) :
            /\ last.type # "Panic"
            /\ table' = o.t
            /\ sent' = o.out
            /\ last' = [type |-> "DatabaseData"]
            /\ UNCHANGED <<busvars, datavars, auxvars>>

NextEdit == EditInput \/ EditConnection \/ EditData

SpecEdit == InitTable /\ [][NextEdit]_vars

(***************************************************************************)
(* The application: main loop, event bus, components, background tasks     *)
(***************************************************************************)
BusKeys == {":", "q", "Enter", "r"}

\* the pages the backend answers with in the application model
BusPageShapes == {<<2, 1>>}

\* handlers then resources, as pool iterates them
Handlers == Components \o resources

Running == pc \notin {"done", "panicked"}

\* the "Query took" tasks spawned by a handler call
spawned(out) == Cardinality({i \in 1..Len(out) : out[i] = OnAsyncEvent("took")})

\* handler.on_event(&event) of the handler named h: the outcomes, each with
\* the state it leaves behind
call(h, event) ==
    CASE h = "table" ->
            {[o EXCEPT !.t = [table |-> o.t, status_line |-> status_line,
                              command |-> command, pending |-> pending]] :
                o \in {x \in ScrollableTableComponent_on_event(table, event) : x.res # "Panic"}}
            \cup {[t |-> [table |-> table, status_line |-> status_line,
                          command |-> command, pending |-> pending],
                   out |-> <<>>, res |-> "Panic", err |-> x.err] :
                    x \in {y \in ScrollableTableComponent_on_event(table, event) : y.res = "Panic"}}
      [] h = "status_line" ->
            {[o EXCEPT !.t = [table |-> table, status_line |-> o.t,
                              command |-> command, pending |-> pending]] :
                o \in StatusLineComponent_on_event(status_line, event)}
      [] h = "command" ->
            {[o EXCEPT !.t = [table |-> table, status_line |-> status_line,
                              command |-> o.t, pending |-> pending]] :
                o \in CommandComponent_on_event(command, event)}
      [] OTHER ->
            {[o EXCEPT !.t = [table |-> table, status_line |-> status_line,
                              command |-> command, pending |-> o.t]] :
                o \in ConnectorResource_on_event(pending, event)}

\* main: crossterm reports a key of the set K, one of at most n; App::on_key
\* posts it; on_update begins
PollKeyOf(K, n) ==
    /\ UNCHANGED <<datavars, auxvars>>
    /\ pc = "poll"
    /\ keys < n
    /\ \E k \in K :
        /\ queue' = Append(queue, OnInput(mode, k))
        /\ mode' = on_key_mode(mode, k)
    /\ keys' = keys + 1
    /\ pc' = "recv"
    /\ should_quit' = FALSE
    /\ tick_quit' = FALSE
    /\ UNCHANGED <<tablevars, status_line, command, resources, cur, idx, delivered,
                   cur_err, should_exit, terminal, startup, pending, took, failed>>

PollKey == PollKeyOf(BusKeys, MaxKeys)

\* main: no key is waiting; on_update begins
PollNone ==
    /\ UNCHANGED <<datavars, auxvars>>
    /\ pc = "poll"
    /\ pc' = "recv"
    /\ should_quit' = FALSE
    /\ tick_quit' = FALSE
    /\ UNCHANGED <<tablevars, status_line, command, resources, queue, cur, idx, delivered,
                   cur_err, should_exit, mode, terminal, keys, startup, pending, took,
                   failed>>

\* pool: try_recv finds the channel empty; pool returns Ok(should_quit),
\* on_update stores it and main leaves the loop when it is set
RecvEmpty ==
    /\ UNCHANGED <<datavars, auxvars>>
    /\ pc = "recv"
    /\ queue = <<>>
    /\ should_exit' = on_update_ok(should_exit, should_quit)
    /\ pc' = IF should_exit' THEN "done" ELSE "poll"
    /\ terminal' = IF should_exit' THEN "restored" ELSE terminal
    /\ IF should_exit'
       THEN UNCHANGED <<cur, delivered, cur_err, idx>>
       ELSE cur' = NoEvent /\ delivered' = <<>> /\ cur_err' = FALSE /\ idx' = 0
    /\ UNCHANGED <<tablevars, status_line, command, resources, queue, should_quit,
                   tick_quit, mode, keys, startup, pending, took, failed>>

\* pool: try_recv yields an event
RecvEvent ==
    /\ UNCHANGED <<datavars, auxvars>>
    /\ pc = "recv"
    /\ queue # <<>>
    /\ cur' = try_recv(queue)
    /\ queue' = Tail(queue)
    /\ delivered' = <<>>
    /\ cur_err' = FALSE
    /\ IF cur'.type = "OnResourceEvent"
       THEN /\ resources' = ResourceManager_on_event(resources, cur')
            /\ UNCHANGED <<pc, idx, tick_quit>>
       ELSE /\ pc' = "dispatch"
            /\ idx' = 1
            /\ tick_quit' = (tick_quit \/ cur'.type = "OnQuit")
            /\ UNCHANGED resources
    /\ UNCHANGED <<tablevars, status_line, command, should_quit, should_exit, mode,
                   terminal, keys, startup, pending, took, failed>>

\* pool: the next handler is handed the event
Dispatch ==
    /\ UNCHANGED <<datavars, auxvars>>
    /\ pc = "dispatch"
    /\ \E o \in call(Handlers[idx], cur) :
        IF o.res = "Panic"
        THEN /\ pc' = "panicked"
             /\ UNCHANGED <<table, status_line, command, pending, queue, delivered, cur_err,
                            idx, should_quit, took, failed>>
        ELSE /\ table' = o.t.table
             /\ status_line' = o.t.status_line
             /\ command' = o.t.command
             /\ pending' = o.t.pending
             /\ delivered' = Append(delivered, Handlers[idx])
             /\ took' = took + spawned(o.out)
             /\ failed' = (failed /\ ~(Handlers[idx] = "table" /\ cur.type = "DatabaseData"))
             /\ IF o.res = "Err"
                THEN \* pool returns the error; on_update logs it; the tick ends
                     /\ queue' = queue \o o.out \o <<log_error(o.err)>>
                     /\ cur_err' = TRUE
                     /\ pc' = "poll"
                     /\ UNCHANGED <<idx, should_quit>>
                ELSE /\ queue' = queue \o o.out
                     /\ UNCHANGED cur_err
                     /\ IF idx < Len(Handlers)
                        THEN /\ idx' = idx + 1
                             /\ UNCHANGED <<pc, should_quit>>
                        ELSE /\ should_quit' = pool_should_quit(should_quit, cur)
                             /\ pc' = "recv"
                             /\ UNCHANGED idx
    /\ UNCHANGED <<sent, last, resources, cur, tick_quit, should_exit, mode, terminal,
                   keys, startup>>

\* a start-up task that posts the connection before the resource
StartupSend_info_first ==
    /\ UNCHANGED <<datavars, auxvars>>
    /\ Running
    /\ startup < 3
    /\ queue' = Append(queue,
                  CASE startup = 0 -> OnConnection("SwitchConnection", SomeInfo)
                    [] startup = 1 -> OnMessage("Info", <<"Connection switched to">>)
                    [] OTHER -> OnResourceEvent("Add", "ConnectorResource"))
    /\ startup' = startup + 1
    /\ UNCHANGED <<tablevars, status_line, command, resources, pc, cur, idx, delivered,
                   cur_err, should_quit, tick_quit, should_exit, mode, terminal, keys,
                   pending, took, failed>>

\* the start-up task: the connector is ready; it posts the resource, the
\* message and the connection, one after the other
StartupSend ==
    /\ UNCHANGED <<datavars, auxvars>>
    /\ Running
    /\ startup < 3
    /\ queue' = Append(queue,
                  CASE startup = 0 -> OnResourceEvent("Add", "ConnectorResource")
                    [] startup = 1 -> OnMessage("Info", <<"Connection switched to">>)
                    [] OTHER -> OnConnection("SwitchConnection", SomeInfo))
    /\ startup' = startup + 1
    /\ UNCHANGED <<tablevars, status_line, command, resources, pc, cur, idx, delivered,
                   cur_err, should_quit, tick_quit, should_exit, mode, terminal, keys,
                   pending, took, failed>>

\* a query task completes: the page, of one of the shapes, is posted as
\* DatabaseData
QuerySucceedsOf(shapes) ==
    /\ UNCHANGED <<datavars, auxvars>>
    /\ Running
    /\ pending # <<>>
    /\ \E i \in 1..Len(pending), shape \in shapes :
        LET q == pending[i]
            page == Page(q.query, q.pagination.start, shape[1], shape[2])
        IN /\ queue' = Append(queue, DatabaseData(page, TRUE))
           /\ pending' = SubSeq(pending, 1, i - 1) \o SubSeq(pending, i + 1, Len(pending))
    /\ UNCHANGED <<tablevars, status_line, command, resources, pc, cur, idx, delivered,
                   cur_err, should_quit, tick_quit, should_exit, mode, terminal, keys,
                   startup, took, failed>>

QuerySucceeds == QuerySucceedsOf(BusPageShapes)

\* a query task fails: no DatabaseData, the error is posted as a message
QueryFails ==
    /\ UNCHANGED <<datavars, auxvars>>
    /\ Running
    /\ pending # <<>>
    /\ \E i \in 1..Len(pending) :
        pending' = SubSeq(pending, 1, i - 1) \o SubSeq(pending, i + 1, Len(pending))
    /\ queue' = Append(queue, log_error("query failed"))
    /\ failed' = TRUE
    /\ UNCHANGED <<tablevars, status_line, command, resources, pc, cur, idx, delivered,
                   cur_err, should_quit, tick_quit, should_exit, mode, terminal, keys,
                   startup, took>>

\* a "Query took" task posts its message
TookSend ==
    /\ UNCHANGED <<datavars, auxvars>>
    /\ Running
    /\ took > 0
    /\ queue' = Append(queue, OnMessage("Info", <<"Query took">>))
    /\ took' = took - 1
    /\ UNCHANGED <<tablevars, status_line, command, resources, pc, cur, idx, delivered,
                   cur_err, should_quit, tick_quit, should_exit, mode, terminal, keys,
                   startup, pending, failed>>

InitBus ==
    /\ table = ScrollableTableComponent_new("db.a.find()")
    /\ sent = <<>>
    /\ last = [type |-> "Init"]
    /\ InitBusVars
    /\ InitDataVars
    /\ InitAuxVars
    /\ InitDataVars

NextBus ==
    \/ PollKey
    \/ PollNone
    \/ RecvEmpty
    \/ RecvEvent
    \/ Dispatch
    \/ StartupSend
    \/ QuerySucceeds
    \/ QueryFails
    \/ TookSend

SpecBus == InitBus /\ [][NextBus]_vars

(***************************************************************************)
(* The application refreshing the table: queries that overlap, answered    *)
(* with pages that differ                                                  *)
(***************************************************************************)
QueryKeys == {"r"}

QueryPageShapes == {<<1, 1>>, <<2, 1>>}

PollRefresh == PollKeyOf(QueryKeys, MaxRefresh)

QueryCompletes == QuerySucceedsOf(QueryPageShapes)

NextQuery ==
    \/ PollRefresh
    \/ PollNone
    \/ RecvEmpty
    \/ RecvEvent
    \/ Dispatch
    \/ StartupSend
    \/ QueryCompletes
    \/ QueryFails
    \/ TookSend

SpecQuery == InitBus /\ [][NextQuery]_vars

(***************************************************************************)
(* The application entering and leaving the command line, and editing the  *)
(* query, while the start-up task reports the connector                    *)
(***************************************************************************)
ModeKeys == {":", "Esc", "Enter", "i"}

PollPress == PollKeyOf(ModeKeys, MaxPresses)

NextMode ==
    \/ PollPress
    \/ PollNone
    \/ RecvEmpty
    \/ RecvEvent
    \/ Dispatch
    \/ StartupSend
    \/ QuerySucceeds
    \/ QueryFails
    \/ TookSend

SpecMode == InitBus /\ [][NextMode]_vars

(***************************************************************************)
(* get_data on its own: two calls for consecutive windows                  *)
(***************************************************************************)
InitData ==
    /\ table = ScrollableTableComponent_new("db.a.find()")
    /\ sent = <<>>
    /\ last = [type |-> "Init"]
    /\ InitBusVars
    /\ connector \in {"mongodb", "postgresql"}
    /\ dquery \in IF connector = "mongodb" THEN MongoQueries ELSE PostgresQueries
    /\ size \in BackendSizes
    /\ wk \in 0..MaxK
    /\ former = NoData
    /\ latter = NoData
    /\ dpc = "idle"
    /\ InitAuxVars

FetchFormer ==
    /\ dpc = "idle"
    /\ former' = get_data(connector, dquery, size, window(wk))
    /\ dpc' = "former"
    /\ UNCHANGED <<tablevars, busvars, auxvars, connector, dquery, size, wk, latter>>

FetchLatter ==
    /\ dpc = "former"
    /\ latter' = get_data(connector, dquery, size, window(wk + 1))
    /\ dpc' = "latter"
    /\ UNCHANGED <<tablevars, busvars, auxvars, connector, dquery, size, wk, former>>

NextData == FetchFormer \/ FetchLatter

SpecData == InitData /\ [][NextData]_vars

(***************************************************************************)
(* The plan builder on its own: execute_db_call attaches the modifiers of  *)
(* the query one after the other and then builds the plan                  *)
(***************************************************************************)
InitPlan ==
    /\ table = ScrollableTableComponent_new("db.a.find()")
    /\ sent = <<>>
    /\ last = [type |-> "Init"]
    /\ InitBusVars
    /\ InitDataVars
    /\ \E kind \in CommandKinds, subs \in SeqsUpTo(AllSubCommands, MaxSubs) :
        plan = [ kind |-> kind, q |-> Command_try_from(kind).q, subs |-> subs,
                 attached |-> <<>>, res |-> "Ok", built |-> FALSE ]
    /\ lexer = Lexer_new(<<>>)
    /\ parser = NoParser
    /\ worker = NoWorker
    /\ typing = NoTyping
    /\ conv = NoConv
    /\ conn = NoConn

\* one turn of the while loop: the next modifier is attached
AddSubQuery ==
    /\ plan.res = "Ok"
    /\ ~plan.built
    /\ plan.subs # <<>>
    /\ LET r == Command_add_sub_query(plan, Head(plan.subs))
       IN plan' = [plan EXCEPT !.q = r.q, !.res = r.res, !.subs = Tail(@),
                               !.attached = Append(@, Head(plan.subs))]
    /\ UNCHANGED <<tablevars, busvars, datavars, lexer, parser, worker, typing, conv, conn>>

\* after the loop: main_command.build(..) is called and the plan runs
BuildPlan ==
    /\ plan.res = "Ok"
    /\ ~plan.built
    /\ plan.subs = <<>>
    /\ plan' = [plan EXCEPT !.built = TRUE]
    /\ UNCHANGED <<tablevars, busvars, datavars, lexer, parser, worker, typing, conv, conn>>

NextPlan == AddSubQuery \/ BuildPlan

SpecPlan == InitPlan /\ [][NextPlan]_vars

(***************************************************************************)
(* execute_db_call on its own, over the expressions of a query: the        *)
(* primary command is made, the modifiers are attached, the plan is built  *)
(***************************************************************************)
ParamLists == {<<>>} \cup SeqsUpTo(ParamKinds, MaxParams)

\* any short list of expressions
FreeSegments == SeqsUpTo(SegmentItems, MaxSegments)

\* what follows the primary command
Tails == {<<>>} \cup SeqsUpTo(ModifierItems, MaxTail)

\* the query as execute_db_call finds it
NewCall(segments, params) ==
    [ kind |-> "None", q |-> [explain |-> FALSE], segments |-> segments,
      params |-> params, expressions |-> segments, pc |-> "start" ]

InitCall ==
    /\ table = ScrollableTableComponent_new("db.a.find()")
    /\ sent = <<>>
    /\ last = [type |-> "Init"]
    /\ InitBusVars
    /\ InitDataVars
    /\ \/ \E s \in FreeSegments, p \in {<<>>, <<"Object">>} : plan = NewCall(s, p)
       \/ \E c \in CommandNames, p \in ParamLists, t \in Tails :
            plan = NewCall(<<"db", "a", c, "(p)">> \o t, p)
    /\ lexer = Lexer_new(<<>>)
    /\ parser = NoParser
    /\ worker = NoWorker
    /\ typing = NoTyping
    /\ conv = NoConv
    /\ conn = NoConn

\* execute_db_call begins: the primary command
MainCommand ==
    /\ plan.pc = "start"
    /\ LET r == InterpreterMongo_main_command(plan.expressions, plan.params)
       IN plan' = [plan EXCEPT !.kind = r.kind,
                               !.q = IF r.res = "Ok" THEN Command_try_from(r.kind).q ELSE @,
                               !.expressions = r.rest,
                               !.pc = IF r.res = "Ok" THEN "loop" ELSE r.res]
    /\ UNCHANGED <<tablevars, busvars, datavars, lexer, parser, worker, typing, conv, conn>>

\* one turn of the while loop
SubQuery ==
    /\ plan.pc = "loop"
    /\ plan.expressions # <<>>
    /\ LET r == InterpreterMongo_sub_query(plan, plan.expressions, plan.params)
       IN plan' = [plan EXCEPT !.q = r.q,
                               !.expressions = r.rest,
                               !.pc = IF r.res = "Ok" THEN "loop" ELSE r.res]
    /\ UNCHANGED <<tablevars, busvars, datavars, lexer, parser, worker, typing, conv, conn>>

\* after the loop: main_command.build(..) is called
BuildCall ==
    /\ plan.pc = "loop"
    /\ plan.expressions = <<>>
    /\ plan' = [plan EXCEPT !.pc = "built"]
    /\ UNCHANGED <<tablevars, busvars, datavars, lexer, parser, worker, typing, conv, conn>>

NextCall == MainCommand \/ SubQuery \/ BuildCall

SpecCall == InitCall /\ [][NextCall]_vars

(***************************************************************************)
(* Number::from_str on its own: every short text of digits, `-` and `.`,   *)
(* and the literals at the bounds of i32 and i64                           *)
(***************************************************************************)
NumberChars == {"-", "0", "1", "9", "."}

\* a number with its last digit replaced
with_last(digits, c) == SubSeq(digits, 1, Len(digits) - 1) \o <<c>>

BoundLexemes ==
    LET near(digits, below, above) ==
            {with_last(digits, below), digits, with_last(digits, above)}
        positive == near(I32_MAX_digits, "6", "8") \cup near(I64_MAX_digits, "6", "8")
        negative == near(I32_MIN_digits, "7", "9") \cup near(I64_MIN_digits, "7", "9")
    IN positive \cup {<<"-">> \o n : n \in negative} \cup {<<"0">> \o n : n \in positive}

NumberLexemes == SeqsUpTo(NumberChars, MaxDigits) \cup BoundLexemes

InitNumber ==
    /\ table = ScrollableTableComponent_new("db.a.find()")
    /\ sent = <<>>
    /\ last = [type |-> "Init"]
    /\ InitBusVars
    /\ InitDataVars
    /\ plan = NoPlan
    /\ lexer = Lexer_new(<<>>)
    /\ parser = NoParser
    /\ worker = NoWorker
    /\ typing = NoTyping
    /\ \E s \in NumberLexemes : conv = [res |-> "Given", lexeme |-> s, number |-> NumberErr]
    /\ conn = NoConn

\* Number::from_str is called on the text
ParseNumber ==
    /\ conv.res = "Given"
    /\ conv' = [conv EXCEPT !.res = "Parsed", !.number = Number_from_str(conv.lexeme)]
    /\ UNCHANGED <<tablevars, busvars, datavars, plan, lexer, parser, worker, typing, conn>>

NextNumber == ParseNumber

SpecNumber == InitNumber /\ [][NextNumber]_vars

(***************************************************************************)
(* The two conversions on their own: a DatabaseValue built from String,    *)
(* Bool, Null, Number, Array and Object is converted to JSON and back      *)
(***************************************************************************)
NumberValues ==
    {[variant |-> "I32", text |-> t] :
        t \in {<<"0">>, <<"5">>, <<"-", "5">>, I32_MAX_digits, <<"-">> \o I32_MIN_digits}}
    \cup {[variant |-> "I64", text |-> t] :
        t \in {<<"5">>, with_last(I32_MAX_digits, "8"), I64_MAX_digits,
               <<"-">> \o I64_MIN_digits}}
    \cup {[variant |-> "F64", text |-> t] :
        t \in {<<"1", ".", "5">>, <<"-", "0", ".", "1">>, <<"1", "e", "2", "0">>,
               <<"N", "a", "N">>}}

LeafValues ==
    {[type |-> "String", str |-> str] : str \in {"", "s"}}
    \cup {[type |-> "Bool", bool |-> bool] : bool \in BOOLEAN}
    \cup {[type |-> "Null"]}
    \cup {[type |-> "Number", number |-> number] : number \in NumberValues}

\* the values nested at most `depth` times in an Array or an Object
RECURSIVE NestedValues(_)
NestedValues(depth) ==
    IF depth = 0 THEN LeafValues
    ELSE LET inner == NestedValues(depth - 1)
         IN inner \cup {[type |-> "Array", arr |-> <<v>>] : v \in inner}
                  \cup {[type |-> "Object", obj |-> [key \in {"k"} |-> v]] : v \in inner}

DatabaseValues ==
    NestedValues(MaxNesting)
    \cup {[type |-> "Array", arr |-> arr] : arr \in {<<>>} \cup SeqsUpTo(LeafValues, MaxItems)}
    \cup {[type |-> "Object", obj |-> <<>>]}

InitValue ==
    /\ table = ScrollableTableComponent_new("db.a.find()")
    /\ sent = <<>>
    /\ last = [type |-> "Init"]
    /\ InitBusVars
    /\ InitDataVars
    /\ plan = NoPlan
    /\ lexer = Lexer_new(<<>>)
    /\ parser = NoParser
    /\ worker = NoWorker
    /\ typing = NoTyping
    /\ \E val \in DatabaseValues :
          conv = [res |-> "Given", given |-> val, json |-> ConvPanic, back |-> ConvPanic]
    /\ conn = NoConn

\* serde_json::Value::from(value)
ToJson ==
    /\ conv.res = "Given"
    /\ conv' = [conv EXCEPT !.res = "Json", !.json = DatabaseValue_into_json(conv.given)]
    /\ UNCHANGED <<tablevars, busvars, datavars, plan, lexer, parser, worker, typing, conn>>

\* DatabaseValue::from(json)
FromJson ==
    /\ conv.res = "Json"
    /\ conv.json.res = "Ok"
    /\ conv' = [conv EXCEPT !.res = "Back", !.back = DatabaseValue_from_json(conv.json.value)]
    /\ UNCHANGED <<tablevars, busvars, datavars, plan, lexer, parser, worker, typing, conn>>

NextValue == ToJson \/ FromJson

SpecValue == InitValue /\ [][NextValue]_vars

(***************************************************************************)
(* A connector on its own (connectors/mongodb/connector.rs,                *)
(* connectors/postgresql/connector.rs): set_database and set_connection    *)
(***************************************************************************)
Databases == {"admin", "shop", "logs"}

\* a connection string: the host it names, the hostaddr parameter and the
\* database, where it has them
Uris == [host : {"localhost"}, hostaddr : {"none", "127.0.0.1"},
         dbname : Databases \cup {"none"}]

\* client_opts.default_database.unwrap_or("admin")
default_database(uri) == IF uri.dbname = "none" THEN "admin" ELSE uri.dbname

\* MongodbConnectorBuilder::build, when it succeeds
MongodbConnectorBuilder_build(uri) ==
    [kind |-> "mongodb",
     info |-> [uri |-> uri, host |-> uri.host, database |-> default_database(uri)],
     client |-> uri,
     database |-> default_database(uri)]

\* PostgresqlConnectorBuilder::build, when it succeeds (the uri names a
\* database)
PostgresqlConnectorBuilder_build(uri) ==
    [kind |-> "postgresql",
     info |-> [uri |-> uri, host |-> "unknown", database |-> uri.dbname],
     client |-> uri,
     database |-> uri.dbname]

\* MongodbConnector::set_database: the field is set first; listing the
\* collections can fail (unwrap panics) and so can writing their file
MongodbConnector_set_database(c, database) ==
    LET s == [c EXCEPT !.database = database]
    IN {[c |-> s, res |-> "Ok"], [c |-> s, res |-> "Err"], [c |-> s, res |-> "Panic"]}

\* PostgresqlConnector::set_database
PostgresqlConnector_set_database(c, database) ==
    {[c |-> [c EXCEPT !.database = database], res |-> "Ok"]}

\* MongodbConnector::set_connection: nothing is stored before the ping, the
\* listing and the file have succeeded
MongodbConnector_set_connection(c, uri) ==
    LET info == [uri |-> uri, host |-> uri.host, database |-> default_database(uri)]
    IN {[c |-> c, res |-> "Err"], [c |-> c, res |-> "Panic"],
        [c |-> [c EXCEPT !.database = info.database, !.info = info, !.client = uri],
         res |-> "Ok"]}

\* PostgresqlConnector::set_connection: get_hostaddrs().first().unwrap() and
\* get_dbname().unwrap() panic on a uri without them
PostgresqlConnector_set_connection(c, uri) ==
    {[c |-> c, res |-> "Err"]} \cup
    IF uri.hostaddr = "none"
    THEN {[c |-> c, res |-> "Panic"]}
    ELSE LET h == [c EXCEPT !.info.host = uri.hostaddr]
         IN IF uri.dbname = "none"
            THEN {[c |-> h, res |-> "Panic"]}
            ELSE {[c |-> [h EXCEPT !.info.database = uri.dbname, !.client = uri],
                   res |-> "Ok"]}

\* Connector::set_database of the connector at hand
Connector_set_database(c, database) ==
    IF c.kind = "mongodb"
    THEN MongodbConnector_set_database(c, database)
    ELSE PostgresqlConnector_set_database(c, database)

\* Connector::set_connection of the connector at hand
Connector_set_connection(c, uri) ==
    IF c.kind = "mongodb"
    THEN MongodbConnector_set_connection(c, uri)
    ELSE PostgresqlConnector_set_connection(c, uri)

\* Connector::get_info
get_info(c) == c.info

InitConnector ==
    /\ table = ScrollableTableComponent_new("db.a.find()")
    /\ sent = <<>>
    /\ last = [type |-> "Init"]
    /\ InitBusVars
    /\ InitDataVars
    /\ plan = NoPlan
    /\ lexer = Lexer_new(<<>>)
    /\ parser = NoParser
    /\ worker = NoWorker
    /\ typing = NoTyping
    /\ conv = NoConv
    /\ \E uri \in Uris :
          \/ conn = MongodbConnectorBuilder_build(uri)
          \/ uri.dbname # "none" /\ conn = PostgresqlConnectorBuilder_build(uri)

\* `use <name>`: set_database is called on the connector
SetDatabase ==
    \E name \in Databases :
      \E o \in Connector_set_database(conn, name) :
        /\ conn' = o.c
        /\ last' = [type |-> "set_database", name |-> name, res |-> o.res]
        /\ UNCHANGED <<table, sent, busvars, datavars, plan, lexer, parser, worker,
                       typing, conv>>

\* `connect <uri>`: set_connection is called on the connector
SetConnection ==
    \E uri \in Uris :
      \E o \in Connector_set_connection(conn, uri) :
        /\ conn' = o.c
        /\ last' = [type |-> "set_connection", uri |-> uri, res |-> o.res]
        /\ UNCHANGED <<table, sent, busvars, datavars, plan, lexer, parser, worker,
                       typing, conv>>

NextConnector == SetDatabase \/ SetConnection

SpecConnector == InitConnector /\ [][NextConnector]_vars

(***************************************************************************)
(* The lexer on its own: scan_tokens over every short source               *)
(***************************************************************************)
InitLexer ==
    /\ table = ScrollableTableComponent_new("db.a.find()")
    /\ sent = <<>>
    /\ last = [type |-> "Init"]
    /\ InitBusVars
    /\ InitDataVars
    /\ plan = NoPlan
    /\ \E source \in {<<>>} \cup SeqsUpTo(LexChars, MaxSource) : lexer = Lexer_new(source)
    /\ parser = NoParser
    /\ worker = NoWorker
    /\ typing = NoTyping
    /\ conv = NoConv
    /\ conn = NoConn

\* scan_tokens: one turn of the while loop
ScanToken ==
    /\ lexer.res = "Scanning"
    /\ ~is_at_end(lexer)
    /\ lexer' \in scan_token_outcomes(lexer)
    /\ UNCHANGED <<tablevars, busvars, datavars, plan, parser, worker, typing, conv, conn>>

\* scan_tokens: the loop has ended, Ok(tokens) or Err((tokens, errors))
ScanReturn ==
    /\ lexer.res = "Scanning"
    /\ is_at_end(lexer)
    /\ lexer' = [lexer EXCEPT !.res = IF lexer.errors = <<>> THEN "Ok" ELSE "Err"]
    /\ UNCHANGED <<tablevars, busvars, datavars, plan, parser, worker, typing, conv, conn>>

NextLexer == ScanToken \/ ScanReturn

SpecLexer == InitLexer /\ [][NextLexer]_vars

(***************************************************************************)
(* The command line on its own: `:`, a line typed key by key, Enter        *)
(***************************************************************************)
CommandWords ==
    { <<"u", "s", "e">>, <<"U", "s", "e">>, <<"c", "o", "n", "n", "e", "c", "t">>,
      <<"q", "u", "i", "t">>, <<"q">>, <<"x">>, <<>> }

CommandArgs ==
    { <<>>, <<" ">>, <<" ", " ">>, <<" ", "x">>, <<" ", "x", " ", "x">>,
      <<" ", "!", "(", "x", ")">>, <<" ", "x", "!", "(", ")", ")">> }

CommandLines == { <<":">> \o w \o a \o <<"Enter">> : w \in CommandWords, a \in CommandArgs }

InitCommand ==
    /\ table = ScrollableTableComponent_new("db.a.find()")
    /\ sent = <<>>
    /\ last = [type |-> "Init"]
    /\ InitBusVars
    /\ InitDataVars
    /\ plan = NoPlan
    /\ lexer = Lexer_new(<<>>)
    /\ parser = NoParser
    /\ worker = NoWorker
    /\ typing \in CommandLines
    /\ conv = NoConv
    /\ conn = NoConn

\* the next key is typed: App::on_key posts it and changes the mode, the
\* command line handles it
CommandKey ==
    /\ typing # <<>>
    /\ \E o \in CommandComponent_on_event(command, OnInput(mode, Head(typing))) :
        /\ command' = o.t
        /\ sent' = o.out
        /\ last' = [type |-> "OnInput", key |-> Head(typing), res |-> o.res]
    /\ mode' = on_key_mode(mode, Head(typing))
    /\ typing' = Tail(typing)
    /\ UNCHANGED <<table, status_line, resources, queue, pc, cur, idx, delivered, cur_err,
                   should_quit, tick_quit, should_exit, terminal, keys, startup, pending,
                   took, failed, datavars, plan, lexer, parser, worker, conv, conn>>

NextCommand == CommandKey

SpecCommand == InitCommand /\ [][NextCommand]_vars

(***************************************************************************)
(* The resource registry on its own: Add and Update events                 *)
(***************************************************************************)
ResourceNames == {"ConnectorResource", "r1", "r2"}

InitResource ==
    /\ table = ScrollableTableComponent_new("db.a.find()")
    /\ sent = <<>>
    /\ last = [type |-> "Init"]
    /\ InitBusVars
    /\ InitDataVars
    /\ InitAuxVars

\* pool hands an OnResourceEvent to the registry
ResourceEvent ==
    /\ \E kind \in {"Add", "Update"}, r \in ResourceNames :
        /\ Len(ResourceManager_on_event(resources, OnResourceEvent(kind, r))) <= MaxResources
        /\ resources' = ResourceManager_on_event(resources, OnResourceEvent(kind, r))
        /\ last' = OnResourceEvent(kind, r)
    /\ UNCHANGED <<table, sent, status_line, command, queue, pc, cur, idx, delivered, cur_err,
                   should_quit, tick_quit, should_exit, mode, terminal, keys, startup,
                   pending, took, failed, datavars, auxvars>>

NextResource == ResourceEvent

SpecResource == InitResource /\ [][NextResource]_vars

(***************************************************************************)
(* The command line and its history: any keys, over every short history    *)
(***************************************************************************)
HistoryEntries == { <<"q">>, <<"x">>, <<"q", "x">> }

\* the history files: their distinct lines in any order
Histories ==
    { h \in SeqsUpTo(HistoryEntries, MaxHistory) : \A i, j \in 1..Len(h) : i # j => h[i] # h[j] }

HistoryKeys == {":", "q", "x", "Backspace", "Tab", "Up", "Down", "Esc", "Enter"}

InitHistory ==
    /\ table = ScrollableTableComponent_new("db.a.find()")
    /\ sent = <<>>
    /\ last = [type |-> "Init", anchor |-> <<>>]
    /\ status_line = StatusLineData_default
    /\ command \in {CommandComponent_new(h) : h \in Histories}
    /\ resources = <<>>
    /\ queue = <<>>
    /\ pc = "poll"
    /\ cur = NoEvent
    /\ idx = 0
    /\ delivered = <<>>
    /\ cur_err = FALSE
    /\ should_quit = FALSE
    /\ tick_quit = FALSE
    /\ should_exit = FALSE
    /\ mode = "View"
    /\ terminal = "raw"
    /\ keys = 0
    /\ startup = 0
    /\ pending = <<>>
    /\ took = 0
    /\ failed = FALSE
    /\ InitDataVars
    /\ InitAuxVars

\* a key is pressed: App::on_key posts it and changes the mode, the command
\* line handles it.  last.anchor is the buffer as the last edit left it (the
\* empty buffer when the command line is opened)
HistoryKey ==
    /\ keys < MaxTyped
    /\ \E key \in HistoryKeys :
        /\ \E o \in CommandComponent_on_event(command, OnInput(mode, key)) :
            /\ command' = o.t
            /\ sent' = o.out
            /\ last' = [type |-> "OnInput", key |-> key, res |-> o.res,
                        anchor |-> IF mode = "View" /\ key = ":" THEN <<>>
                                   ELSE IF mode = "Input" /\ key \notin {"Up", "Down"}
                                        THEN o.t.data.value
                                        ELSE last.anchor]
        /\ mode' = on_key_mode(mode, key)
    /\ keys' = keys + 1
    /\ UNCHANGED <<table, status_line, resources, queue, pc, cur, idx, delivered, cur_err,
                   should_quit, tick_quit, should_exit, terminal, startup, pending,
                   took, failed, datavars, auxvars>>

NextHistory == HistoryKey

SpecHistory == InitHistory /\ [][NextHistory]_vars

(***************************************************************************)
(* The command line with the messages of the background tasks: any keys,   *)
(* and at any moment an OnMessage dispatched to the command line           *)
(***************************************************************************)
\* an OnMessage reaches the command line (the time a query took, an error)
CommandMessage ==
    /\ \E severity \in {"Info", "Error"} :
         \E o \in CommandComponent_on_event(command, OnMessage(severity, <<"message">>)) :
            /\ command' = o.t
            /\ sent' = o.out
            /\ last' = [type |-> "OnMessage", severity |-> severity, res |-> o.res,
                        anchor |-> last.anchor]
    /\ UNCHANGED <<table, status_line, resources, queue, pc, cur, idx, delivered, cur_err,
                   should_quit, tick_quit, should_exit, mode, terminal, keys, startup,
                   pending, took, failed, datavars, auxvars>>

NextMessage == HistoryKey \/ CommandMessage

SpecMessage == InitHistory /\ [][NextMessage]_vars

(***************************************************************************)
(* The task list of the EventManager and the worker spawned by new         *)
(***************************************************************************)
\* Vec::pop: the last element, and the list without it
Vec_pop(v) ==
    IF v = <<>>
    THEN [some |-> FALSE, value |-> 0, rest |-> v]
    ELSE [some |-> TRUE, value |-> v[Len(v)], rest |-> SubSeq(v, 1, Len(v) - 1)]

InitWorker ==
    /\ table = ScrollableTableComponent_new("db.a.find()")
    /\ sent = <<>>
    /\ last = [type |-> "Init"]
    /\ InitBusVars
    /\ InitDataVars
    /\ plan = NoPlan
    /\ lexer = Lexer_new(<<>>)
    /\ parser = NoParser
    /\ typing = NoTyping
    /\ conv = NoConv
    /\ conn = NoConn
    /\ worker = NoWorker

\* EventManager::trigger: the handle is pushed onto the list
Trigger ==
    /\ worker.next <= MaxHandles
    /\ worker' = [worker EXCEPT !.async_events = Append(@, worker.next), !.next = @ + 1]
    /\ UNCHANGED <<tablevars, busvars, datavars, plan, lexer, parser, typing, conv, conn>>

\* the worker, once every 100 ms: pop, and a task is spawned that awaits
\* the handle
WorkerTick ==
    /\ LET event == Vec_pop(worker.async_events)
       IN worker' = [worker EXCEPT !.async_events = event.rest,
                                   !.awaited = IF event.some THEN @ \cup {event.value} ELSE @]
    /\ UNCHANGED <<tablevars, busvars, datavars, plan, lexer, parser, typing, conv, conn>>

\* an awaited handle resolves; an Err is logged
TaskEnds ==
    /\ \E h \in worker.awaited \ worker.ended, err \in BOOLEAN :
        worker' = [worker EXCEPT !.ended = @ \cup {h},
                                 !.logged = IF err THEN @ + 1 ELSE @]
    /\ UNCHANGED <<tablevars, busvars, datavars, plan, lexer, parser, typing, conv, conn>>

NextWorker == Trigger \/ WorkerTick \/ TaskEnds

SpecWorker == InitWorker /\ [][NextWorker]_vars

(***************************************************************************)
(* The parser on its own: parse over every short token sequence            *)
(***************************************************************************)
InitParser ==
    /\ table = ScrollableTableComponent_new("db.a.find()")
    /\ sent = <<>>
    /\ last = [type |-> "Init"]
    /\ InitBusVars
    /\ InitDataVars
    /\ plan = NoPlan
    /\ lexer = Lexer_new(<<>>)
    /\ worker = NoWorker
    /\ typing = NoTyping
    /\ conv = NoConv
    /\ conn = NoConn
    /\ \E tokens \in {<<>>} \cup SeqsUpTo(TokenTypes, MaxTokens) :
        parser = [ tokens |-> tokens, current |-> 0, res |-> "Parsing", msg |-> "",
                   body |-> 0 ]

\* parse: one turn of the while loop, an expression is pushed or parse returns
ParseExpression ==
    /\ parser.res = "Parsing"
    /\ ~Parser_is_at_end(parser)
    /\ LET r == parse_expression([tokens |-> parser.tokens, current |-> parser.current])
       IN parser' = [parser EXCEPT !.current = r.p.current,
                                   !.res = IF r.res = "Ok" THEN "Parsing" ELSE r.res,
                                   !.msg = r.msg,
                                   !.body = IF r.res = "Ok" THEN @ + 1 ELSE @]
    /\ UNCHANGED <<tablevars, busvars, datavars, plan, lexer, worker, typing, conv, conn>>

\* parse: the loop has ended, Ok(program)
ParseReturn ==
    /\ parser.res = "Parsing"
    /\ Parser_is_at_end(parser)
    /\ parser' = [parser EXCEPT !.res = "Ok"]
    /\ UNCHANGED <<tablevars, busvars, datavars, plan, lexer, worker, typing, conv, conn>>

NextParser == ParseExpression \/ ParseReturn

SpecParser == InitParser /\ [][NextParser]_vars

(***************************************************************************)
(* The parser on calls with parameters: an identifier, `(`, and every      *)
(* short run of identifiers, parentheses, braces, colons and commas        *)
(***************************************************************************)
CallTokens ==
    {"Identifier", "LeftParen", "RightParen", "LeftBrace", "RightBrace", "Colon", "Comma"}

InitGrammar ==
    /\ table = ScrollableTableComponent_new("db.a.find()")
    /\ sent = <<>>
    /\ last = [type |-> "Init"]
    /\ InitBusVars
    /\ InitDataVars
    /\ plan = NoPlan
    /\ lexer = Lexer_new(<<>>)
    /\ worker = NoWorker
    /\ typing = NoTyping
    /\ conv = NoConv
    /\ conn = NoConn
    /\ \E tail \in {<<>>} \cup SeqsUpTo(CallTokens, MaxCallTokens) :
        parser = [ tokens |-> <<"Identifier", "LeftParen">> \o tail, current |-> 0,
                   res |-> "Parsing", msg |-> "", body |-> 0 ]

NextGrammar == ParseExpression \/ ParseReturn

SpecGrammar == InitGrammar /\ [][NextGrammar]_vars

(***************************************************************************)
(* Properties of the event bus and the application loop                    *)
(***************************************************************************)
\* the step takes an event off the channel
IsDequeue == Len(queue') < Len(queue)

\* the dispatch of the event taken before has ended: every handler and
\* every resource has been handed the event, or it was an OnResourceEvent,
\* which the resource registry alone consumes
FullyDispatched ==
    \/ cur = NoEvent
    \/ cur.type = "OnResourceEvent"
    \/ delivered = Handlers

\* C1: events are delivered in the order they were enqueued, and the next
\* event is not dequeued until the current one has been passed to every
\* component handler and then to every registered resource.
C1_FifoEveryHandler ==
    [][ /\ IsDequeue => cur' = Head(queue) /\ queue' = Tail(queue) /\ FullyDispatched
        /\ Len(queue') >= Len(queue) => SubSeq(queue', 1, Len(queue)) = queue ]_vars

\* C2: once an OnQuit has been received in a tick, the tick does not end
\* with the loop going on: whatever other events are drained with it,
\* should_exit is true at the end of that tick, the loop is left and the
\* terminal is restored.
C2_QuitExits ==
    tick_quit => \/ pc \in {"recv", "dispatch"}
                 \/ pc = "done" /\ should_exit /\ terminal = "restored"

\* C2 witness: the loop has exited after a tick that drained OnQuit and
\* then a further event behind it
C2_Witness ==
    /\ pc = "done"
    /\ tick_quit
    /\ should_exit
    /\ cur.type = "OnConnection"

\* a query of the table is still on its way
InFlight ==
    \/ pending # <<>>
    \/ \E i \in 1..Len(queue) : queue[i].type \in {"OnQuery", "DatabaseData"}
    \/ pc = "dispatch" /\ cur.type \in {"OnQuery", "DatabaseData"}

\* C7: after a query issued by the table has failed, and with no other
\* query on its way, the table displays the page it had loaded before.
C7_StalePageShown ==
    failed /\ ~InFlight /\ table.data # EmptyData =>
        ScrollableTableComponent_draw(table) = [widget |-> "ScrollableTable", page |-> table.data]

\* C8: whenever a handler returns an error during the drain, an OnMessage of
\* severity Error carrying the error text is put at the end of the channel,
\* and once such a message has been dispatched to the command line, the
\* command line holds its text with severity Error.
C8_ErrorShown ==
    [][ /\ (cur_err' /\ ~cur_err) =>
               \E o \in call(Handlers[idx], cur) :
                   /\ o.res = "Err"
                   /\ queue' # <<>>
                   /\ queue'[Len(queue')] =
                          [type |-> "OnMessage", severity |-> "Error", value |-> <<o.err>>]
        /\ ( /\ cur'.type = "OnMessage"
             /\ cur'.severity = "Error"
             /\ \E i \in 1..Len(delivered') : delivered'[i] = "command" )
           => command'.data = [severity |-> "Error", value |-> cur'.value] ]_vars

\* C8 witness: the error of the table's handler has come back as a message
\* and the command line shows it
C8_Witness ==
    /\ cur = [type |-> "OnMessage", severity |-> "Error", value |-> <<"clear failed">>]
    /\ \E i \in 1..Len(delivered) : delivered[i] = "command"
    /\ command.data = [severity |-> "Error", value |-> <<"clear failed">>]

\* the registry has handled an event of the kind
IsResourceStep(kind) ==
    /\ last' # last \/ resources' # resources
    /\ last'.type = "OnResourceEvent"
    /\ last'.kind = kind

\* C25: handling OnResource Add(r) appends r after the existing resources;
\* handling OnResource Update(r) on a registry that holds a resource replaces
\* the resource in slot 0 and leaves the number of resources and every other
\* slot unchanged, and on the empty registry it makes r the only resource.
C25_AddAppendsUpdateReplaces ==
    [][ /\ IsResourceStep("Add") => resources' = Append(resources, last'.res)
        /\ (IsResourceStep("Update") /\ resources # <<>>) =>
              /\ Len(resources') = Len(resources)
              /\ resources'[1] = last'.res
              /\ \A i \in 2..Len(resources) : resources'[i] = resources[i]
        /\ (IsResourceStep("Update") /\ resources = <<>>) => resources' = <<last'.res>> ]_vars

\* an Update has replaced slot 0 of a registry of several resources
C25_Witness ==
    /\ last.type = "OnResourceEvent"
    /\ last.kind = "Update"
    /\ Len(resources) = MaxResources
    /\ resources[1] = last.res
    /\ \A i \in 2..Len(resources) : resources[i] # last.res

\* C25 as stated: Update(r) replaces slot 0 and leaves the number of
\* resources unchanged, whatever the registry holds.
C25_UpdateKeepsCount ==
    [][ /\ IsResourceStep("Add") => resources' = Append(resources, last'.res)
        /\ IsResourceStep("Update") =>
              /\ Len(resources') = Len(resources)
              /\ resources'[1] = last'.res
              /\ \A i \in 2..Len(resources) : resources'[i] = resources[i] ]_vars

\* C24: a tick whose last event is the key `q` pressed in View mode ends
\* with should_exit true, so the application loop exits.
C24_QuitKeyExits ==
    [][ (/\ pc = "recv"
         /\ queue = <<>>
         /\ cur = OnInput("View", "q")
         /\ ~cur_err) => should_exit' ]_vars

(***************************************************************************)
(* Properties of the table component                                       *)
(***************************************************************************)
header_len(t) == IF t.data.rows = 0 THEN 0 ELSE t.data.cols

\* the step is the handling of key k by the table
IsKeyStep(k) == last'.type = "OnInput" /\ last'.key = k

\* C3: when a Down key makes v_offset + v_select equal PAGE (100),
\* pagination.start grows by exactly 99, the cursor is reset to row 1
\* (v_offset = 0, v_select = 1) and exactly one OnQuery is emitted, carrying
\* the unchanged query text and the new window.
C3_DownAdvances ==
    [][ ( /\ IsKeyStep("Down")
          /\ LET m == move_vertical(table, "Down")
             IN m.state.vertical_offset + m.state.vertical_select = 100 )
        => /\ table'.pagination.start = table.pagination.start + 99
           /\ table'.pagination.limit = table.pagination.limit
           /\ table'.state.vertical_offset = 0
           /\ table'.state.vertical_select = 1
           /\ table'.query = table.query
           /\ sent' = <<OnQuery(table.query, table'.pagination)>> ]_vars

\* C3 witness: a Down key has just crossed the boundary of the first page
C3_Witness ==
    /\ last.type = "OnInput" /\ last.key = "Down"
    /\ table.pagination.start = 99
    /\ table.state.vertical_select = 1 /\ table.state.vertical_offset = 0
    /\ Len(sent) = 1 /\ sent[1].type = "OnQuery"

\* C4: an Up key rewinds the page only when the cursor reaches the top row of
\* a page with pagination.start > 0 and pagination.start a multiple of 99; it
\* then decreases pagination.start by exactly 99, emits exactly one OnQuery
\* with the unchanged query text, and places the cursor on the bottom row
\* (row 100) of the new page.
C4_UpRewinds ==
    [][ ( /\ IsKeyStep("Up")
          /\ (sent' # <<>> \/ table'.pagination # table.pagination) )
        => /\ LET m == move_vertical(table, "Up")
              IN m.state.vertical_offset + m.state.vertical_select = 1
           /\ table.pagination.start > 0
           /\ table.pagination.start % 99 = 0
           /\ table'.pagination.start = table.pagination.start - 99
           /\ sent' = <<OnQuery(table.query, table'.pagination)>>
           /\ table'.state.vertical_offset + table'.state.vertical_select = LIMIT ]_vars

\* C5: in every reachable state of the table v_select lies in [1, PAGE].
C5_SelectInRange ==
    table.state.vertical_select >= 1 /\ table.state.vertical_select <= LIMIT

\* C6: h_offset stays within [0, header.len - 1] of the page the table holds
\* (0 when that page has no column).
C6_HorizontalInRange ==
    /\ table.state.horizontal_offset >= 0
    /\ table.state.horizontal_offset <= Max(header_len(table) - 1, 0)

\* the absolute row under the cursor
absolute_row(t) ==
    t.pagination.start + t.state.vertical_offset + t.state.vertical_select - 1

\* C35: an Up or Down key changes the absolute row under the cursor by at
\* most one, also across a page boundary: after a page advance or rewind the
\* cursor is on the row the two pages share (the first row of the later
\* window).
C35_CursorMovesOneRow ==
    [][ (IsKeyStep("Up") \/ IsKeyStep("Down")) =>
            /\ absolute_row(table') - absolute_row(table) \in {-1, 0, 1}
            /\ table'.pagination.start # table.pagination.start =>
                  absolute_row(table') = Max(table.pagination.start, table'.pagination.start)
      ]_vars

\* C33: whenever Enter is handled in View mode and the table holds at least
\* one row, the inspected index v_select - 1 + v_offset is a row of the page
\* held, after every sequence of navigation keys and pages.  Enter can be
\* the next key in every state, so the index is valid in every state.
C33_EnterIndexValid ==
    (last.type # "Panic" /\ table.data.rows > 0) =>
        LET index == table.state.vertical_select - 1 + table.state.vertical_offset
        IN /\ index >= 0
           /\ index < table.data.rows
           /\ \A o \in table_on_enter(table) : o.res # "Panic"

(***************************************************************************)
(* Properties of get_data                                                  *)
(***************************************************************************)
rows_of(page) == {page.rows[i] : i \in 1..Len(page.rows)}

\* C9: when get_data has answered for the windows starting at k*99 and at
\* (k+1)*99 and the former page is full, the two pages overlap in exactly one
\* row: the last row of the former is the first row of the latter.
C9_PagesOverlapInOneRow ==
    ( /\ dpc = "latter"
      /\ former.res = "Ok"
      /\ latter.res = "Ok"
      /\ Len(former.rows) = LIMIT )
    => /\ latter.rows # <<>>
       /\ former.rows[Len(former.rows)] = latter.rows[1]
       /\ Cardinality(rows_of(former) \cap rows_of(latter)) = 1

\* C10: whatever the connector, the primary command, the modifier and the
\* window, a page returned by get_data has at most pagination.limit rows.
C10_AtMostLimitRows ==
    /\ former.res = "Ok" => Len(former.rows) <= window(wk).limit
    /\ latter.res = "Ok" => Len(latter.rows) <= window(wk + 1).limit

\* the query is a Mongo query of this kind with this one modifier
has_modifier(kind, type) ==
    /\ connector = "mongodb"
    /\ dquery.kind = kind
    /\ dquery.subs # <<>>
    /\ dquery.subs[1].type = type

\* C36: for a find query with a skip(n) of the user, the rows returned for
\* the window starting at s begin at offset n + s of the unskipped result
\* (the skip is added to the start of the window, as it is for aggregate).
C36_FindSkipAdded ==
    has_modifier("Find", "Skip") =>
        /\ (dpc \in {"former", "latter"} /\ former.res = "Ok") =>
              former.rows = backend_rows(size, dquery.subs[1].amount + window(wk).start,
                                         window(wk).limit)
        /\ (dpc = "latter" /\ latter.res = "Ok") =>
              latter.rows = backend_rows(size, dquery.subs[1].amount + window(wk + 1).start,
                                         window(wk + 1).limit)

\* every row of the page is one of the first n rows of the result
within_first(page, n) == \A i \in 1..Len(page.rows) : page.rows[i].id <= n

\* C37: for a query with a limit(n) of the user, paging never exposes more
\* than n rows: the rows of the first window, and those of a window the table
\* pages to (the window after a full page), lie within the first n rows of
\* the unpaged result.
C37_LimitBoundsPaging ==
    (has_modifier("Find", "Limit") \/ has_modifier("Aggregate", "Limit")) =>
        /\ (dpc \in {"former", "latter"} /\ former.res = "Ok" /\ wk = 0) =>
              within_first(former, dquery.subs[1].amount)
        /\ (dpc = "latter" /\ latter.res = "Ok" /\ former.res = "Ok"
               /\ Len(former.rows) = LIMIT) =>
              within_first(latter, dquery.subs[1].amount)

(***************************************************************************)
(* Properties of the plan builder                                          *)
(***************************************************************************)
\* the modifiers a command has no arm for: count takes allowDiskUse only,
\* aggregate takes no sort, distinct and getIndexes take none
Unsupported(kind, sub) ==
    CASE kind = "Find" -> FALSE
      [] kind = "Count" -> sub.type # "AllowDiskUse"
      [] kind = "Aggregate" -> sub.type = "Sort"
      [] OTHER -> TRUE

\* C11: once a modifier that the primary command does not support has been
\* attached, the result is an InterpreterError and the plan is not built.
C11_UnsupportedRejected ==
    ( /\ plan.kind # "None"
      /\ \E i \in 1..Len(plan.attached) : Unsupported(plan.kind, plan.attached[i]) )
    => plan.res = "Err" /\ ~plan.built

\* C26: for every plan that has been built, the first segment is `db`, the
\* second is a name (the collection), and the third names one of the five
\* command kinds find, count, aggregate, distinct, getIndexes (in any case of
\* the letters).
C26_PlanSegments ==
    (plan.kind # "None" /\ plan.pc = "built") =>
        /\ Len(plan.segments) >= 3
        /\ plan.segments[1] = "db"
        /\ plan.segments[2] \in SegmentNames
        /\ str_to_lowercase(plan.segments[3]) \in
              {"find", "count", "aggregate", "distinct", "getindexes"}
        /\ plan.kind \in CommandKinds

\* the plan of db.a.find({..}) has been built
C26_Witness ==
    /\ plan.kind = "Find"
    /\ plan.pc = "built"
    /\ plan.segments = <<"db", "a", "find", "(p)">>
    /\ plan.params = <<"Object">>

\* the parameter lists that violate the arity of a command
ArityViolated(name, params) ==
    CASE name = "find" -> Len(params) > 2
      [] name = "count" -> Len(params) > 1
      [] name = "aggregate" -> ~(Len(params) = 1 /\ params[1] \in {"Array", "EmptyArray"})
      [] name = "getindexes" -> Len(params) > 0
      [] OTHER -> FALSE

\* C27: building the primary command of db.a.<command>(params) ends with an
\* InterpreterError when the parameters violate the arity of the command:
\* find with more than 2, count with more than 1, aggregate with anything
\* other than exactly 1 array, getIndexes with any.
C27_ArityRejected ==
    ( /\ plan.kind # "None" \/ plan.pc \in {"Err", "Panic"}
      /\ Len(plan.segments) >= 4
      /\ plan.segments[4] = "(p)"
      /\ SubSeq(plan.segments, 1, 2) = <<"db", "a">>
      /\ plan.segments[3] \in CommandNames
      /\ ArityViolated(str_to_lowercase(plan.segments[3]), plan.params) )
    => plan.pc = "Err"

\* the step in which the handler at idx has handled the current event
IsHandled == pc = "dispatch" /\ delivered' = Append(delivered, Handlers[idx])

\* C14: a new OnQuery never cancels a query on its way: the connector only
\* adds the query to its running tasks, a task leaves them only by posting
\* its result, every DatabaseData handed to the table replaces the page, and
\* the page changes in no other way, so the page shown is the one of the
\* DatabaseData delivered last.
C14_LastDeliveredWins ==
    [][ /\ (IsHandled /\ cur.type = "OnQuery" /\ idx > Len(Components))
           => pending' = Append(pending, [query |-> cur.query, pagination |-> cur.pagination])
        /\ Len(pending') < Len(pending)
           => /\ Len(queue') = Len(queue) + 1
              /\ queue'[Len(queue')].type \in {"DatabaseData", "OnMessage"}
        /\ (IsHandled /\ cur.type = "DatabaseData" /\ idx = 1) => table'.data = cur.data
        /\ table'.data # table.data => IsHandled /\ cur.type = "DatabaseData" /\ idx = 1
      ]_vars

\* two queries were on their way together and both have completed with
\* pages that differ: the table shows the page delivered first while the
\* other one waits in the channel
C14_Witness ==
    /\ pc = "dispatch"
    /\ cur.type = "DatabaseData"
    /\ idx = 2
    /\ table.data = cur.data
    /\ pending = <<>>
    /\ \E i \in 1..Len(queue) : queue[i].type = "DatabaseData" /\ queue[i].data # cur.data

\* C17: in every state pagination.limit > 0 and pagination.start is a
\* multiple of LIMIT - 1; the window changes only by a step of LIMIT - 1
\* forwards on Down or backwards on Up, the limit kept, or by the reset to
\* start 0 and limit LIMIT of a fresh query.
C17_WindowOnPageBoundary ==
    /\ [](table.pagination.limit > 0 /\ table.pagination.start % (LIMIT - 1) = 0)
    /\ [][ table'.pagination # table.pagination =>
              /\ last'.type = "OnInput"
              /\ \/ /\ last'.key = "Down"
                    /\ table'.pagination =
                         [table.pagination EXCEPT !.start = @ + (LIMIT - 1)]
                 \/ /\ last'.key = "Up"
                    /\ table'.pagination =
                         [table.pagination EXCEPT !.start = @ - (LIMIT - 1)]
                 \/ /\ last'.key = "r"
                    /\ table'.pagination = [start |-> 0, limit |-> LIMIT] ]_vars

\* the table has gone a page forwards and then back again
C17_Witness ==
    /\ last.type = "OnInput"
    /\ last.key = "Up"
    /\ table.pagination = [start |-> LIMIT - 1, limit |-> LIMIT]
    /\ sent = <<OnQuery(table.query, table.pagination)>>

\* the step in which the table has handled the key `i`
IsEditStep == last' # last /\ last'.type = "OnInput" /\ last'.key = "i"

\* C18: `i` in View mode with connector info present: once the editor has
\* exited the table has reset paging (start 0, cursor at row 1) and has
\* emitted exactly one OnQuery, which carries the query text it now holds.
C18_EditQueries ==
    [][ IsEditStep /\ table.connector_info # NoInfo =>
            /\ last'.res = "Ok"
            /\ table'.pagination.start = 0
            /\ table'.state.vertical_select = 1
            /\ table'.state.vertical_offset = 0
            /\ sent' = <<OnQuery(table'.query, table'.pagination)>> ]_vars

\* C19: `i` in View mode with no connector info: the table posts one
\* OnMessage of severity Error and no OnQuery, and its query text, window,
\* cursor and fetching flag are as before.
C19_EditNeedsConnection ==
    [][ IsEditStep /\ table.connector_info = NoInfo =>
            /\ last'.res = "Ok"
            /\ Len(sent') = 1
            /\ sent'[1].type = "OnMessage"
            /\ sent'[1].severity = "Error"
            /\ table'.query = table.query
            /\ table'.pagination = table.pagination
            /\ table'.state = table.state
            /\ table'.vertical_offset = table.vertical_offset
            /\ table'.horizontal_offset = table.horizontal_offset
            /\ table'.is_fetching = table.is_fetching ]_vars

\* `i` was pressed with no connector info while the table was on its second
\* page with the cursor moved and a query on its way
C19_Witness ==
    /\ last.type = "OnInput"
    /\ last.key = "i"
    /\ table.connector_info = NoInfo
    /\ sent = <<log_error("You have to be connected to the database to be able to query!")>>
    /\ table.pagination.start = LIMIT - 1
    /\ table.is_fetching

\* the step in which the command line is submitted
IsSubmit == mode = "Input" /\ typing # <<>> /\ Head(typing) = "Enter" /\ typing' = Tail(typing)

\* the position of the first space of a text, or one past its end
first_space(v) ==
    IF \E i \in 1..Len(v) : v[i] = " "
    THEN CHOOSE i \in 1..Len(v) : v[i] = " " /\ \A j \in 1..(i - 1) : v[j] # " "
    ELSE Len(v) + 1

\* the argument values of an argument region: the region itself, or what the
\* shell printed when the region holds !(..)
argument_values(region) ==
    IF shell_captures(region).some THEN ShellOutputs \cup {region} ELSE {region}

\* C20: submitting the command line emits exactly one event, determined by
\* the command: `use <name>` emits OnConnection SwitchDatabase(name),
\* `connect <uri>` emits OnConnection Connect(uri), `quit` and `q` emit
\* OnQuit; no other event is emitted for the submission.
C20_SubmitEmitsOne ==
    [][ IsSubmit =>
          LET v == command.data.value
              word == to_lowercase(SubSeq(v, 1, first_space(v) - 1))
              region == SubSeq(v, first_space(v) + 1, Len(v))
          IN /\ (word = <<"u", "s", "e">> /\ region # <<>>) =>
                    \E name \in argument_values(region) :
                        sent' = <<OnConnection("SwitchDatabase", name)>>
             /\ (word = <<"c", "o", "n", "n", "e", "c", "t">> /\ region # <<>>) =>
                    \E uri \in argument_values(region) :
                        sent' = <<OnConnection("Connect", uri)>>
             /\ (word = <<"q", "u", "i", "t">> \/ word = <<"q">>) => sent' = <<OnQuit>>
             /\ Len(sent') <= 1 ]_vars

\* `use x` has been submitted
C20_Witness ==
    /\ last.type = "OnInput"
    /\ last.key = "Enter"
    /\ typing = <<>>
    /\ sent = <<OnConnection("SwitchDatabase", <<"x">>)>>
    /\ command.data.value = <<>>
    /\ ~command.is_focused

C22_FailedSubstitutionRejected ==
    [][ IsSubmit =>
          LET v == command.data.value
              word == to_lowercase(SubSeq(v, 1, first_space(v) - 1))
              region == SubSeq(v, first_space(v) + 1, Len(v))
          IN (/\ word \in {<<"u", "s", "e">>, <<"c", "o", "n", "n", "e", "c", "t">>}
              /\ shell_captures(region).some) =>
                \/ /\ sent' = <<>>
                   /\ command'.data.severity = "Error"
                \/ /\ Len(sent') = 1
                   /\ sent'[1].type = "OnConnection"
                   /\ sent'[1].arg \in ShellOutputs ]_vars

\* a key of K is pressed in Input mode
IsTyped(K) == keys' = keys + 1 /\ mode = "Input" /\ last'.key \in K

\* C23: an Up or Down key in Input mode that changes the buffer shows an
\* entry of the history filtered by the buffer as the last edit left it (the
\* empty buffer right after the command line was opened), and every edit of
\* the buffer (a character, Backspace, an accepted completion) resets the
\* history cursor to -1.
C23_HistoryFollowsBuffer ==
    [][ /\ (IsTyped({"Up", "Down"}) /\ command'.data.value # command.data.value) =>
              \E f \in filter_fuzzy_matches(last.anchor, command.history) :
                  \E i \in 1..Len(f) : command'.data.value = f[i]
        /\ (IsTyped(Chars \cup {"Backspace", "Tab"}) /\ command'.data.value # command.data.value) =>
              command'.history_index = -1 ]_vars

\* C40: the table holds connector info only once the connector resource is
\* in the registry, and an OnQuery sent by `i` (the only key of this run that
\* sends one) is dispatched while the connector resource is registered.
C40_ResourceBeforeInfo ==
    /\ table.connector_info # NoInfo =>
            \E k \in DOMAIN resources : resources[k] = "ConnectorResource"
    /\ (pc = "dispatch" /\ cur.type = "OnQuery") =>
            \E k \in DOMAIN resources : resources[k] = "ConnectorResource"

\* an `i` pressed after the start-up changed the query, and pool hands its
\* OnQuery to the connector resource
C40_Witness ==
    /\ pc = "dispatch"
    /\ cur.type = "OnQuery"
    /\ table.connector_info = SomeInfo
    /\ Handlers[idx] = "ConnectorResource"

\* C39: after set_database(name) has returned successfully, the database of
\* get_info() is name.
C39_InfoNamesDatabase ==
    (last.type = "set_database" /\ last.res = "Ok") =>
        get_info(conn).database = last.name

\* C38: at the end of every tick of the loop (the loop is about to poll the
\* next key) the mode is Input exactly when the command line is focused.
C38_ModeIsFocus ==
    pc = "poll" => ((mode = "Input") <=> command.is_focused)

\* the command line was entered with `:` and left again with Enter (only a
\* submit leaves history_index at -1 without the focus); the tick of the
\* Enter is over
C38_Witness ==
    /\ pc = "poll"
    /\ keys >= 2
    /\ mode = "View"
    /\ ~command.is_focused
    /\ command.history_index = -1

\* C34: while the command line is focused the typed text changes only
\* through key events: an OnMessage delivered meanwhile does not replace or
\* clear the buffer.
C34_MessageKeepsBuffer ==
    [][ (keys' = keys /\ last'.type = "OnMessage" /\ command.is_focused) =>
            command'.data.value = command.data.value ]_vars

\* get_table_layout: the is_focused each component of the window is created
\* with
get_table_layout == [table |-> TRUE, status_line |-> FALSE, command |-> FALSE]

\* is_focused of a component: only the command line ever assigns its own
is_focused(c) == IF c = "command" THEN command.is_focused ELSE get_table_layout[c]

\* C16: at any time exactly one component of the window has is_focused set.
C16_ExactlyOneFocused == Cardinality({i \in 1..Len(Components) : is_focused(Components[i])}) = 1

\* the step of the worker in which its interval ticks
IsWorkerTick ==
    /\ worker'.next = worker.next
    /\ worker'.ended = worker.ended
    /\ worker'.logged = worker.logged

\* C15: on each tick of the worker the task list is drained: every handle on
\* the list is removed from it and its task is awaited.
C15_TickDrains ==
    [][ IsWorkerTick =>
            /\ worker'.async_events = <<>>
            /\ \A i \in 1..Len(worker.async_events) :
                    worker.async_events[i] \in worker'.awaited ]_vars

(***************************************************************************)
(* Properties of Number                                                    *)
(***************************************************************************)
\* the value of an integer literal lies in [-2^31, 2^31 - 1]
InI32Range(s) ==
    digits_le(strip_zeros(unsigned(s)),
              IF is_negative(s) THEN I32_MIN_digits ELSE I32_MAX_digits)

\* the text the lexer takes for a number with a fraction: digits, `.`, digits
is_fraction_literal(s) ==
    /\ parse_f64(s).res = "Ok"
    /\ unsigned(s)[1] # "."
    /\ unsigned(s)[Len(unsigned(s))] # "."

\* C28: an integer literal is typed i32 exactly when its value lies in
\* [-2^31, 2^31 - 1] and i64 otherwise, and a literal with a `.` is typed f64.
C28_NumberTyping ==
    conv.res = "Parsed" =>
        /\ is_integer_text(conv.lexeme) =>
              /\ conv.number.res = "Ok"
              /\ conv.number.variant = IF InI32Range(conv.lexeme) THEN "I32" ELSE "I64"
        /\ is_fraction_literal(conv.lexeme) =>
              /\ conv.number.res = "Ok"
              /\ conv.number.variant = "F64"

\* the run of flag letters of the source from character number n (from 0)
RECURSIVE flags_run(_, _)
flags_run(source, n) ==
    IF n < Len(source) /\ source[n + 1] \in {"i", "m", "x", "s", "u"}
    THEN <<source[n + 1]>> \o flags_run(source, n + 1)
    ELSE <<>>

\* C31: after a regex literal the lexer emits a regex-flags token whose
\* lexeme (and so its literal) is exactly the run of flag letters after the
\* closing `/`, empty when there is none, and whose range does not overlap
\* the range of the regex token.
C31_RegexFlagsToken ==
    \A k \in DOMAIN lexer.tokens :
        lexer.tokens[k].type = "Regex" =>
            /\ k + 1 \in DOMAIN lexer.tokens
            /\ lexer.tokens[k + 1].type = "RegexFlags"
            /\ lexer.tokens[k + 1].lexeme = flags_run(lexer.source, lexer.tokens[k].end + 1)
            /\ lexer.tokens[k + 1].start > lexer.tokens[k].end

\* the number of the line on which character number n (from 0) stands
line_of(source, n) == Cardinality({i \in 1..n : source[i] = "\n"})

\* C30: for a string literal that is not closed before the end of the input,
\* the lexer records the error "Unterminated string" on the line of the
\* opening quote, and the position of the error is that of the token that
\* starts at the opening quote.
C30_UnterminatedString ==
    \A i \in DOMAIN lexer.errors :
        lexer.errors[i].message = "Unterminated string" =>
            LET opening == lexer.tokens[Len(lexer.tokens)]
            IN /\ lexer.source[opening.start + 1] = "\""
               /\ lexer.errors[i].line = line_of(lexer.source, opening.start)
               /\ lexer.errors[i].position = Len(lexer.tokens) - 1

(***************************************************************************)
(* Properties of the conversions of DatabaseValue                          *)
(***************************************************************************)
\* C29: converting a DatabaseValue built only from String, Bool, Null,
\* Number, Array and Object to JSON and back yields the original value.
C29_RoundTrip ==
    /\ conv.res = "Json" => conv.json.res = "Ok"
    /\ conv.res = "Back" => conv.back = ConvOk(conv.given)

(***************************************************************************)
(* Properties of the lexer                                                 *)
(***************************************************************************)
\* C12: for every source the lexer returns normally, with the tokens or
\* with the tokens and the recorded errors: a malformed token never makes
\* it abort.
C12_LexerReturns == lexer.res # "Panic"

(***************************************************************************)
(* Properties of the parser                                                *)
(***************************************************************************)
\* C13: for every token sequence parse returns a Program or a ParseError and
\* never aborts (parse is a function of the tokens, so a second run gives
\* the same result)
C13_ParseReturns == parser.res # "Panic"

\* no parameter and no property is followed by the next without a comma: in
\* a program of identifiers, parentheses, braces, colons and commas the
\* grammar never puts the start of a value right after the end of one
comma_separated(tokens) ==
    \A i \in 1..(Len(tokens) - 1) :
        ~(/\ tokens[i] \in {"Identifier", "RightBrace"}
          /\ tokens[i + 1] \in {"Identifier", "LeftBrace"})

\* every `{` opens an object of its own: it stands where a value may start,
\* after `(`, `,` or `:`
own_braces(tokens) ==
    \A i \in 1..Len(tokens) :
        tokens[i] = "LeftBrace" => i > 1 /\ tokens[i - 1] \in {"LeftParen", "Comma", "Colon"}

\* C32: parse succeeds only on token sequences derivable from the grammar:
\* consecutive parameters and consecutive properties are separated by a
\* comma, and every object literal has one opening and one closing brace of
\* its own.
C32_ParsedIsDerivable ==
    parser.res = "Ok" => comma_separated(parser.tokens) /\ own_braces(parser.tokens)

====
